---- MODULE Spec2Model ----
(***************************************************************************)
(* CRC-Error: the login -> phys_if -> ingr_total -> store -> delta ->      *)
(* incident pipeline and the workflow that runs it.                        *)
(*                                                                         *)
(* The history collection (MongoDB "crc_history") is the only durable      *)
(* state.  store_history_activity appends one batch of documents stamped   *)
(* with a fresh poll_id and a timestamp, calculate_delta_activity compares *)
(* every document of a poll with the most recent document of the same      *)
(* (ip, node, interface_id) of another poll, evaluate_incident_activity    *)
(* applies the incident rule to the deltas.                                *)
(*                                                                         *)
(* Python values are modelled as follows.                                  *)
(*   dict      a sequence of [k, v] pairs with distinct keys, in insertion *)
(*             order (dicts iterate in insertion order)                    *)
(*   None      the empty tuple << >>; a non-null value v is << v >>        *)
(*   float     an exact fraction [num, den] in lowest terms, den > 0       *)
(*   a key that a dict literal does not set is a field the record lacks    *)
(***************************************************************************)
EXTENDS Integers, Sequences, FiniteSets, TLC

VARIABLES
    history,          \* the crc_history collection, in insertion order
    uuids,            \* how many poll ids uuid4() has handed out
    pc,               \* the stage the caller of the activities is at
    store_result,     \* StoreHistoryOutput of the run, or None
    delta_result,     \* DeltaOutput of the run, or None
    previous,         \* the `previous` found for each document of current_poll
    incident_input,   \* IncidentInput.deltas as the evaluator leaves it
    incident_result,  \* IncidentOutput of the run, or None
    evaluations,      \* how often the evaluator has run on incident_input
    login_result,     \* LoginOutput of the run, or None
    phys_if_result,   \* PhysIfOutput of the run, or None
    ingr_total_result,\* IngrTotalOutput of the run, or None
    trace,            \* the activity executions of the run: [stage, input]
    attempts,         \* failed attempts of the activity the run is at
    failure,          \* the activity whose failure ended the run, or None
    result,           \* the dict the run returned, or None
    aborted,          \* the poll ids of the runs that failed after their store
    device,           \* what the device answers to the two class queries
    email,            \* the last execution of the notifier, or None
    outbox,           \* the messages the SMTP relay has accepted
    other,            \* a second run on the same history collection, or None
    raced,            \* the pairs of polls stored before either's deltas
    mongodb_client,   \* the singleton's _client and _db, each a handle or None
    calls             \* the calls made on the singleton, with what each did

vars == << history, uuids, pc, store_result, delta_result, previous,
           incident_input, incident_result, evaluations, login_result,
           phys_if_result, ingr_total_result, trace, attempts, failure,
           result, aborted, device, email, outbox, other, raced,
           mongodb_client, calls >>

\* the history connection and the calls made on it
connection == << mongodb_client, calls >>

\* what no statement of run() and none of its six activities touches
elsewhere == << email, outbox, other, raced, connection >>

\* the outputs of the three collecting activities
collected == << login_result, phys_if_result, ingr_total_result >>

(***************************************************************************)
(* Bounds                                                                  *)
(***************************************************************************)
MaxPolls == 2        \* store_history invocations, counter-rich specification
MaxPollsKeys == 4    \* store_history invocations, key-rich specification
MaxPollsBatch == 2   \* store_history invocations, batch-rich specification
MaxEvaluations == 2  \* evaluator invocations on one delta batch

None == << >>
Some(v) == << v >>

\* a device that answers both class queries with an empty imdata list
NoDevice == [l1PhysIf |-> << >>, eqptIngrTotal15min |-> << >>]

(***************************************************************************)
(* Python dicts                                                            *)
(***************************************************************************)
EmptyDict == << >>

HasKey(d, k) == \E i \in 1..Len(d) : d[i].k = k

DictGet(d, k) == d[CHOOSE i \in 1..Len(d) : d[i].k = k].v

\* d[k] = v : replaces the value in place, or appends a new key
DictSet(d, k, v) ==
    IF HasKey(d, k)
    THEN [i \in 1..Len(d) |-> IF d[i].k = k THEN [k |-> k, v |-> v] ELSE d[i]]
    ELSE Append(d, [k |-> k, v |-> v])

\* sum(len(ifaces) for ifaces in d.values())
RECURSIVE NestedLen(_)
NestedLen(d) == IF d = << >> THEN 0 ELSE Len(Head(d).v) + NestedLen(Tail(d))

(***************************************************************************)
(* Python floats, as exact fractions                                       *)
(***************************************************************************)
Abs(n) == IF n < 0 THEN -n ELSE n

RECURSIVE Gcd(_, _)
Gcd(a, b) == IF b = 0 THEN a ELSE Gcd(b, a % b)

ZeroDivisionError == [num |-> 0, den |-> 0]

Float(n, d) == [num |-> n, den |-> d]

\* a / b on two ints
TrueDiv(a, b) ==
    IF b = 0 THEN ZeroDivisionError
    ELSE LET g == Gcd(Abs(a), Abs(b))
             s == IF b < 0 THEN -1 ELSE 1
         IN  [num |-> (s * a) \div g, den |-> (s * b) \div g]

\* x > y on two floats
FloatGT(x, y) == x.num * y.den > y.num * x.den

\* x >= y on two floats
FloatGE(x, y) == x.num * y.den >= y.num * x.den

(***************************************************************************)
(* workflow.execute_activity                                               *)
(***************************************************************************)
\* a policy that allows a second attempt
RETRY_ONCE == [maximum_attempts |-> 2]

\* RetryPolicy(maximum_attempts=1)
NO_RETRY == [maximum_attempts |-> 1]

\* the activities the Worker is constructed with
RegisteredActivities ==
    { "login_activity", "get_phys_if_activity", "get_ingr_total_activity" }

\* the locals of run() are gone
Unwound ==
    /\ store_result' = None
    /\ delta_result' = None
    /\ previous' = << >>
    /\ incident_input' = EmptyDict
    /\ incident_result' = None
    /\ evaluations' = 0
    /\ login_result' = None
    /\ phys_if_result' = None
    /\ ingr_total_result' = None

\* an execution of the activity returned: run() goes on to the next statement
Completes(stage, input, to) ==
    /\ trace' = Append(trace, [stage |-> stage, input |-> input])
    /\ attempts' = 0
    /\ pc' = to
    /\ UNCHANGED << failure, result, aborted >>

\* a failure handler that compensates: the documents of the poll the run
\* stored are deleted when a later activity fails
RaisesRollingBack(stage, input) ==
    /\ trace' = Append(trace, [stage |-> stage, input |-> input])
    /\ attempts' = 0
    /\ pc' = "failed"
    /\ failure' = Some(stage)
    /\ aborted' = IF store_result = None THEN aborted
                  ELSE aborted \cup { store_result[1].poll_id }
    /\ history' = IF store_result = None THEN history
                  ELSE SelectSeq(history,
                                 LAMBDA d : d.poll_id # store_result[1].poll_id)
    /\ Unwound
    /\ UNCHANGED << uuids, result >>

\* an execution of the activity raised or ran into start_to_close_timeout
\* before it wrote anything: it is executed again while the policy allows,
\* else the ActivityError propagates out of run() and the run has failed
Raises(stage, input) ==
    /\ trace' = Append(trace, [stage |-> stage, input |-> input])
    /\ IF attempts + 1 < NO_RETRY.maximum_attempts
       THEN /\ attempts' = attempts + 1
            /\ UNCHANGED << pc, failure, aborted, store_result, delta_result,
                            previous, incident_input, incident_result,
                            evaluations, collected >>
       ELSE /\ attempts' = 0
            /\ pc' = "failed"
            /\ failure' = Some(stage)
            /\ aborted' = IF store_result = None THEN aborted
                          ELSE aborted \cup { store_result[1].poll_id }
            /\ Unwound
    /\ UNCHANGED << history, uuids, result >>

\* PhysIfInput(ip=login_result.ip, protocol=login_result.protocol)
PhysIfInput ==
    [ip |-> login_result[1].ip, protocol |-> login_result[1].protocol]

\* IngrTotalInput(ip, interfaces, protocol) from phys_if_result
IngrTotalInput ==
    [ip         |-> phys_if_result[1].ip,
     interfaces |-> phys_if_result[1].interfaces,
     protocol   |-> phys_if_result[1].protocol]

\* the interfaces of phys_if_result handed to the store, the merge skipped
StoreHistoryInputUnmerged ==
    [ip         |-> ingr_total_result[1].ip,
     interfaces |-> phys_if_result[1].interfaces,
     protocol   |-> ingr_total_result[1].protocol]

\* StoreHistoryInput(ip, interfaces, protocol) from ingr_total_result
StoreHistoryInput ==
    [ip         |-> ingr_total_result[1].ip,
     interfaces |-> ingr_total_result[1].interfaces,
     protocol   |-> ingr_total_result[1].protocol]

\* DeltaInput(ip, poll_id, protocol) from store_result
DeltaInput ==
    [ip       |-> store_result[1].ip,
     poll_id  |-> store_result[1].poll_id,
     protocol |-> store_result[1].protocol]

\* IncidentInput(ip, deltas, protocol) from delta_result
IncidentInput ==
    [ip       |-> delta_result[1].ip,
     deltas   |-> delta_result[1].deltas,
     protocol |-> delta_result[1].protocol]

(***************************************************************************)
(* store_history_activity                                                  *)
(***************************************************************************)
\* the documents of one node, in the order of node_interfaces.items()
RECURSIVE NodeDocuments(_, _, _, _, _)
NodeDocuments(node, node_interfaces, ip, poll_id, timestamp) ==
    IF node_interfaces = << >> THEN << >>
    ELSE LET iface_id == Head(node_interfaces).k
             iface_data == Head(node_interfaces).v
         IN  << [poll_id      |-> poll_id,
                 timestamp    |-> timestamp,
                 ip           |-> ip,
                 interface_id |-> iface_id,
                 node         |-> node,
                 dn           |-> iface_data.dn,
                 adminSt      |-> iface_data.adminSt,
                 crc_errors   |-> iface_data.crc_errors,
                 pkts_cum     |-> iface_data.pkts_cum] >>
             \o NodeDocuments(node, Tail(node_interfaces), ip, poll_id, timestamp)

\* the documents with get_current_time() read inside the loop over the
\* nodes: the clock has advanced from one node to the next
RECURSIVE DocumentsStampedEach(_, _, _, _)
DocumentsStampedEach(interfaces, ip, poll_id, timestamp) ==
    IF interfaces = << >> THEN << >>
    ELSE NodeDocuments(Head(interfaces).k, Head(interfaces).v, ip, poll_id, timestamp)
         \o DocumentsStampedEach(Tail(interfaces), ip, poll_id, timestamp + 1)

\* the documents of the batch, in the order of interfaces.items()
RECURSIVE Documents(_, _, _, _)
Documents(interfaces, ip, poll_id, timestamp) ==
    IF interfaces = << >> THEN << >>
    ELSE NodeDocuments(Head(interfaces).k, Head(interfaces).v, ip, poll_id, timestamp)
         \o Documents(Tail(interfaces), ip, poll_id, timestamp)

InterfaceIds(documents) == [i \in 1..Len(documents) |-> documents[i].interface_id]

\* the except branch of insert_many ending in `raise`: the activity fails
\* when the insert does
StoreHistoryFatal(input, timestamp, inserted) ==
    LET poll_id   == uuids + 1
        documents == Documents(input.interfaces, input.ip, poll_id, timestamp)
        raised    == inserted < Len(documents)
    IN  /\ inserted \in 0..Len(documents)
        /\ uuids' = uuids + 1
        /\ history' = history \o SubSeq(documents, 1, inserted)
        /\ IF raised
           THEN /\ trace' = Append(trace, [stage |-> "store_history_activity",
                                           input |-> input])
                /\ attempts' = 0
                /\ pc' = "failed"
                /\ failure' = Some("store_history_activity")
                /\ Unwound
                /\ UNCHANGED << result, aborted >>
           ELSE /\ store_result' = Some(
                      [poll_id        |-> poll_id,
                       ip             |-> input.ip,
                       protocol       |-> input.protocol,
                       records_stored |-> Len(documents),
                       analytics      |->
                         [total_interfaces  |-> NestedLen(input.interfaces),
                          records_inserted  |-> Len(documents),
                          records_failed    |-> 0,
                          failed_interfaces |-> << >>]])
                /\ Completes("store_history_activity", input, "stored")
                /\ UNCHANGED << delta_result, previous, incident_input,
                                incident_result, evaluations, collected >>

\* the activity with a delete_many({"ip": ip}) before its insert_many: the
\* collection keeps the latest poll of a device only
StoreHistoryReplacing(input, timestamp, inserted) ==
    LET poll_id   == uuids + 1
        documents == Documents(input.interfaces, input.ip, poll_id, timestamp)
        raised    == inserted < Len(documents)
    IN  /\ inserted \in 0..Len(documents)
        /\ uuids' = uuids + 1
        /\ history' = SelectSeq(history, LAMBDA d : d.ip # input.ip)
                         \o SubSeq(documents, 1, inserted)
        /\ store_result' = Some(
              [poll_id        |-> poll_id,
               ip             |-> input.ip,
               protocol       |-> input.protocol,
               records_stored |-> IF raised THEN 0 ELSE Len(documents),
               analytics      |->
                 [total_interfaces  |-> NestedLen(input.interfaces),
                  records_inserted  |-> IF raised THEN 0 ELSE Len(documents),
                  records_failed    |-> IF raised THEN Len(documents) ELSE 0,
                  failed_interfaces |-> IF raised THEN InterfaceIds(documents)
                                        ELSE << >>]])
        /\ Completes("store_history_activity", input, "stored")
        /\ UNCHANGED << delta_result, previous, incident_input, incident_result,
                        evaluations, collected >>

\* the activity on StoreHistoryInput: the documents it builds, the ones
\* insert_many writes and the StoreHistoryOutput it returns.
\* timestamp: what get_current_time() returns; inserted: how many documents
\* insert_many wrote (all of them, or fewer when it raised)
store_history_activity(input, timestamp, inserted) ==
    LET poll_id   == uuids + 1
        documents == Documents(input.interfaces, input.ip, poll_id, timestamp)
        raised    == inserted < Len(documents)
    IN  [documents |-> documents,
         written   |-> IF raised THEN SubSeq(documents, 1, inserted) ELSE documents,
         output    |->
           [poll_id        |-> poll_id,
            ip             |-> input.ip,
            protocol       |-> input.protocol,
            records_stored |-> IF raised THEN 0 ELSE Len(documents),
            analytics      |->
              [total_interfaces  |-> NestedLen(input.interfaces),
               records_inserted  |-> IF raised THEN 0 ELSE Len(documents),
               records_failed    |-> IF raised THEN Len(documents) ELSE 0,
               failed_interfaces |-> IF raised THEN InterfaceIds(documents)
                                     ELSE << >>]]]

\* the run executes the activity
StoreHistory(input, timestamp, inserted) ==
    LET returned == store_history_activity(input, timestamp, inserted)
    IN  /\ inserted \in 0..Len(returned.documents)
        /\ uuids' = uuids + 1
        /\ history' = history \o returned.written
        /\ store_result' = Some(returned.output)
        /\ Completes("store_history_activity", input, "stored")
        /\ UNCHANGED << delta_result, previous, incident_input, incident_result,
                        evaluations, collected >>

(***************************************************************************)
(* calculate_delta_activity                                                *)
(***************************************************************************)
\* collection.find({"ip": ip, "poll_id": poll_id})
CurrentPoll(ip, poll_id) ==
    SelectSeq(history, LAMBDA d : d.ip = ip /\ d.poll_id = poll_id)

\* the filter without its "poll_id": {"$ne": ...} clause
MatchesPreviousAnyPoll(d, ip, poll_id, current) ==
    /\ d.ip = ip
    /\ d.interface_id = current.interface_id
    /\ d.node = current.node

\* the filter without its "node" clause
MatchesPreviousAnyNode(d, ip, poll_id, current) ==
    /\ d.ip = ip
    /\ d.interface_id = current.interface_id
    /\ d.poll_id # poll_id

\* the filter without its "interface_id" clause
MatchesPreviousAnyInterface(d, ip, poll_id, current) ==
    /\ d.ip = ip
    /\ d.node = current.node
    /\ d.poll_id # poll_id

\* the filter of find_one: same ip, interface_id and node, another poll_id
MatchesPrevious(d, ip, poll_id, current) ==
    /\ d.ip = ip
    /\ d.interface_id = current.interface_id
    /\ d.node = current.node
    /\ d.poll_id # poll_id

\* find_one with sort=[("timestamp", 1)]
FindPreviousOldest(ip, poll_id, current) ==
    LET matching == { i \in 1..Len(history) :
                        MatchesPrevious(history[i], ip, poll_id, current) }
    IN  IF matching = {} THEN { None }
        ELSE { Some(history[i]) : i \in
                 { j \in matching :
                     \A m \in matching : history[m].timestamp >= history[j].timestamp } }

\* the filter with a "timestamp": {"$lt": current["timestamp"]} clause
FindPreviousEarlier(ip, poll_id, current) ==
    LET matching == { i \in 1..Len(history) :
                        /\ MatchesPrevious(history[i], ip, poll_id, current)
                        /\ history[i].timestamp < current.timestamp }
    IN  IF matching = {} THEN { None }
        ELSE { Some(history[i]) : i \in
                 { j \in matching :
                     \A m \in matching : history[m].timestamp <= history[j].timestamp } }

\* find_one(filter, sort=[("timestamp", -1)]): the documents it may return;
\* documents of equal timestamp are returned in no specified order
FindPrevious(ip, poll_id, current) ==
    LET matching == { i \in 1..Len(history) :
                        MatchesPrevious(history[i], ip, poll_id, current) }
    IN  IF matching = {} THEN { None }
        ELSE { Some(history[i]) : i \in
                 { j \in matching :
                     \A m \in matching : history[m].timestamp <= history[j].timestamp } }

\* the percentage with the guard `if delta_pkts >= 0`
CrcPercentFromZero(delta_crc, delta_pkts) ==
    IF delta_pkts >= 0 THEN TrueDiv(delta_crc, delta_pkts) ELSE Float(0, 1)

\* the percentage of the `if previous:` branch
CrcPercent(delta_crc, delta_pkts) ==
    IF delta_pkts > 0 THEN TrueDiv(delta_crc, delta_pkts) ELSE Float(0, 1)

\* the dict of the `else` branch: first poll, no delta available
FirstPollRecord(current) ==
    [dn          |-> current.dn,
     adminSt     |-> current.adminSt,
     crc_t0      |-> None,
     crc_t1      |-> Some(current.crc_errors),
     pkts_t0     |-> None,
     pkts_t1     |-> Some(current.pkts_cum),
     delta_crc   |-> None,
     delta_pkts  |-> None,
     crc_percent |-> None,
     first_poll  |-> TRUE]

\* the dict of the `if previous:` branch
HistoryRecord(adminSt, current, prev, delta_crc, delta_pkts) ==
    [dn          |-> current.dn,
     adminSt     |-> adminSt,
     crc_t0      |-> Some(prev[1].crc_errors),
     crc_t1      |-> Some(current.crc_errors),
     pkts_t0     |-> Some(prev[1].pkts_cum),
     pkts_t1     |-> Some(current.pkts_cum),
     delta_crc   |-> Some(delta_crc),
     delta_pkts  |-> Some(delta_pkts),
     crc_percent |-> Some(CrcPercent(delta_crc, delta_pkts))]

\* the deltas clamped at zero: max(0, crc_t1 - crc_t0)
DeltaRecordClamped(current, prev) ==
    IF prev # None
    THEN HistoryRecord(current.adminSt, current, prev,
                       IF current.crc_errors < prev[1].crc_errors THEN 0
                       ELSE current.crc_errors - prev[1].crc_errors,
                       IF current.pkts_cum < prev[1].pkts_cum THEN 0
                       ELSE current.pkts_cum - prev[1].pkts_cum)
    ELSE FirstPollRecord(current)

\* the first-poll record without its "first_poll": True entry
DeltaRecordNoFlag(current, prev) ==
    IF prev # None
    THEN HistoryRecord(current.adminSt, current, prev,
                       current.crc_errors - prev[1].crc_errors,
                       current.pkts_cum - prev[1].pkts_cum)
    ELSE [f \in DOMAIN FirstPollRecord(current) \ {"first_poll"} |->
             FirstPollRecord(current)[f]]

\* adminSt read from `previous` instead of `current`
DeltaRecordPrevAdmin(current, prev) ==
    IF prev # None
    THEN HistoryRecord(prev[1].adminSt, current, prev,
                       current.crc_errors - prev[1].crc_errors,
                       current.pkts_cum - prev[1].pkts_cum)
    ELSE FirstPollRecord(current)

\* a missing previous document read as counters of zero:
\* previous.get("crc_errors", 0) on an empty dict
DeltaRecordZeroBase(current, prev) ==
    LET base == IF prev # None THEN prev
                ELSE Some([crc_errors |-> 0, pkts_cum |-> 0])
    IN  HistoryRecord(current.adminSt, current, base,
                      current.crc_errors - base[1].crc_errors,
                      current.pkts_cum - base[1].pkts_cum)

\* the packet delta taken as a distance: abs(pkts_t1 - pkts_t0)
DeltaRecordAbs(current, prev) ==
    IF prev # None
    THEN HistoryRecord(current.adminSt, current, prev,
                       current.crc_errors - prev[1].crc_errors,
                       Abs(current.pkts_cum - prev[1].pkts_cum))
    ELSE FirstPollRecord(current)

\* the value stored at deltas[node][iface_id] for one document of current_poll
DeltaRecord(current, prev) ==
    IF prev # None
    THEN HistoryRecord(current.adminSt, current, prev,
                       current.crc_errors - prev[1].crc_errors,
                       current.pkts_cum - prev[1].pkts_cum)
    ELSE FirstPollRecord(current)

\* the loop `for current in current_poll`, from document i on
RECURSIVE DeltaLoop(_, _, _, _)
DeltaLoop(current_poll, prevs, i, deltas) ==
    IF i > Len(current_poll) THEN deltas
    ELSE LET current == current_poll[i]
             node    == current.node
             d1      == IF HasKey(deltas, node) THEN deltas
                        ELSE DictSet(deltas, node, EmptyDict)
             d2      == DictSet(d1, node,
                                DictSet(DictGet(d1, node), current.interface_id,
                                        DeltaRecord(current, prevs[i])))
         IN  DeltaLoop(current_poll, prevs, i + 1, d2)

DeltaAnalytics(current_poll, prevs) ==
    LET recs == [i \in 1..Len(current_poll) |-> DeltaRecord(current_poll[i], prevs[i])]
        hist == SelectSeq(recs, LAMBDA r : r.delta_crc # None)
        nohi == SelectSeq([i \in 1..Len(current_poll) |->
                              [cur |-> current_poll[i], prev |-> prevs[i]]],
                          LAMBDA e : e.prev = None)
    IN  [total_interfaces                    |-> Len(current_poll),
         interfaces_with_history             |-> Len(hist),
         interfaces_without_history          |-> Len(recs) - Len(hist),
         interfaces_with_positive_delta_crc  |->
             Len(SelectSeq(hist, LAMBDA r : r.delta_crc[1] > 0)),
         interfaces_with_positive_delta_pkts |->
             Len(SelectSeq(hist, LAMBDA r : r.delta_pkts[1] > 0)),
         interfaces_with_zero_delta          |->
             Len(SelectSeq(hist, LAMBDA r : r.delta_crc[1] = 0 /\ r.delta_pkts[1] = 0)),
         no_history_interfaces               |->
             [i \in 1..Len(nohi) |-> << nohi[i].cur.node, nohi[i].cur.interface_id >>]]

\* the activity on DeltaInput(ip, poll_id): what it can return, with the
\* `previous` its find_one calls gave for the documents of current_poll
calculate_delta_activity(input) ==
    LET ip           == input.ip
        poll_id      == input.poll_id
        current_poll == CurrentPoll(ip, poll_id)
    IN  IF current_poll = << >>
        THEN { [output |-> [deltas    |-> EmptyDict,
                            ip        |-> ip,
                            protocol  |-> input.protocol,
                            analytics |-> [error |-> "No current poll data found"]],
                prevs  |-> << >>] }
        ELSE { [output |-> [deltas    |-> DeltaLoop(current_poll, prevs, 1, EmptyDict),
                            ip        |-> ip,
                            protocol  |-> input.protocol,
                            analytics |-> DeltaAnalytics(current_poll, prevs)],
                prevs  |-> prevs] :
                 prevs \in { f \in [1..Len(current_poll) -> {None} \cup
                                      { Some(history[i]) : i \in 1..Len(history) }] :
                               \A i \in 1..Len(current_poll) :
                                 f[i] \in FindPrevious(ip, poll_id, current_poll[i]) } }

\* the activity on the DeltaInput the workflow builds
CalculateDelta ==
    /\ pc = "stored"
    /\ UNCHANGED << device, elsewhere >>
    /\ \E returned \in calculate_delta_activity(DeltaInput) :
         /\ delta_result' = Some(returned.output)
         /\ previous' = returned.prevs
    /\ Completes("calculate_delta_activity", DeltaInput, "deltas")
    /\ UNCHANGED << history, uuids, store_result, incident_input, incident_result,
                    evaluations, collected >>

(***************************************************************************)
(* evaluate_incident_activity                                              *)
(***************************************************************************)
CRC_THRESHOLD == Float(1, 100)

\* the (node, iface_id, delta_data) triples in the order of the two nested
\* loops over input.deltas.items() and node_interfaces.items()
RECURSIVE NodeItems(_, _)
NodeItems(node, node_interfaces) ==
    IF node_interfaces = << >> THEN << >>
    ELSE << [node       |-> node,
             iface_id   |-> Head(node_interfaces).k,
             delta_data |-> Head(node_interfaces).v] >>
         \o NodeItems(node, Tail(node_interfaces))

RECURSIVE DeltaItems(_)
DeltaItems(deltas) ==
    IF deltas = << >> THEN << >>
    ELSE NodeItems(Head(deltas).k, Head(deltas).v) \o DeltaItems(Tail(deltas))

\* delta_data.get("first_poll", False)
FirstPoll(delta_data) ==
    IF "first_poll" \in DOMAIN delta_data THEN delta_data.first_poll ELSE FALSE

\* the rule with `crc_percent >= CRC_THRESHOLD`
ClassifyInclusive(delta_data) ==
    IF FirstPoll(delta_data) THEN "skipped_first_poll"
    ELSE IF delta_data.adminSt # "up" THEN "skipped_admin_down"
    ELSE IF delta_data.delta_crc = None \/ delta_data.delta_pkts = None
         THEN "skipped_no_delta"
    ELSE IF delta_data.delta_pkts[1] <= 0 THEN "skipped_zero_pkts"
    ELSE IF delta_data.crc_percent # None
            /\ FloatGE(delta_data.crc_percent[1], CRC_THRESHOLD)
         THEN "opened"
    ELSE IF delta_data.crc_percent = None THEN "TypeError"
    ELSE "ignored"

\* the chain with the adminSt test before the first_poll test
ClassifyDownFirst(delta_data) ==
    IF delta_data.adminSt # "up" THEN "skipped_admin_down"
    ELSE IF FirstPoll(delta_data) THEN "skipped_first_poll"
    ELSE IF delta_data.delta_crc = None \/ delta_data.delta_pkts = None
         THEN "skipped_no_delta"
    ELSE IF delta_data.delta_pkts[1] <= 0 THEN "skipped_zero_pkts"
    ELSE IF delta_data.crc_percent # None
            /\ FloatGT(delta_data.crc_percent[1], CRC_THRESHOLD)
         THEN "opened"
    ELSE IF delta_data.crc_percent = None THEN "TypeError"
    ELSE "ignored"

\* the branch of the loop body that one record takes
Classify(delta_data) ==
    IF FirstPoll(delta_data) THEN "skipped_first_poll"
    ELSE IF delta_data.adminSt # "up" THEN "skipped_admin_down"
    ELSE IF delta_data.delta_crc = None \/ delta_data.delta_pkts = None
         THEN "skipped_no_delta"
    ELSE IF delta_data.delta_pkts[1] <= 0 THEN "skipped_zero_pkts"
    ELSE IF delta_data.crc_percent # None
            /\ FloatGT(delta_data.crc_percent[1], CRC_THRESHOLD)
         THEN "opened"
    ELSE IF delta_data.crc_percent = None THEN "TypeError"
    ELSE "ignored"

\* the chain with `crc_percent >= 0.05` for "high"
SeverityInclusive(crc_percent) ==
    IF FloatGT(crc_percent, Float(10, 100)) THEN "critical"
    ELSE IF FloatGE(crc_percent, Float(5, 100)) THEN "high"
    ELSE IF FloatGT(crc_percent, Float(2, 100)) THEN "medium"
    ELSE "warning"

\* the chain with the labels of its first two branches exchanged
SeveritySwapped(crc_percent) ==
    IF FloatGT(crc_percent, Float(10, 100)) THEN "high"
    ELSE IF FloatGT(crc_percent, Float(5, 100)) THEN "critical"
    ELSE IF FloatGT(crc_percent, Float(2, 100)) THEN "medium"
    ELSE "warning"

\* the if/elif chain that determines the severity
Severity(crc_percent) ==
    IF FloatGT(crc_percent, Float(10, 100)) THEN "critical"
    ELSE IF FloatGT(crc_percent, Float(5, 100)) THEN "high"
    ELSE IF FloatGT(crc_percent, Float(2, 100)) THEN "medium"
    ELSE "warning"

\* the incident dict (crc_percent_display, a rendering of crc_percent for
\* the mail, is left out)
\* the incident dict with the cumulative counters of the record in the
\* place of its deltas: delta_data.get("crc_t1"), delta_data.get("pkts_t1")
IncidentCumulative(item) ==
    [interface_id |-> item.iface_id,
     node         |-> item.node,
     dn           |-> item.delta_data.dn,
     delta_crc    |-> item.delta_data.crc_t1[1],
     delta_pkts   |-> item.delta_data.pkts_t1[1],
     crc_percent  |-> item.delta_data.crc_percent[1],
     severity     |-> Severity(item.delta_data.crc_percent[1])]

Incident(item) ==
    [interface_id |-> item.iface_id,
     node         |-> item.node,
     dn           |-> item.delta_data.dn,
     delta_crc    |-> item.delta_data.delta_crc[1],
     delta_pkts   |-> item.delta_data.delta_pkts[1],
     crc_percent  |-> item.delta_data.crc_percent[1],
     severity     |-> Severity(item.delta_data.crc_percent[1])]

\* the nested loops from item i on; incidents is the list built so far
RECURSIVE IncidentLoop(_, _, _)
IncidentLoop(items, i, incidents) ==
    IF i > Len(items) THEN incidents
    ELSE IncidentLoop(items, i + 1,
                      IF Classify(items[i].delta_data) = "opened"
                      THEN Append(incidents, Incident(items[i]))
                      ELSE incidents)

CountClass(items, class) ==
    Len(SelectSeq(items, LAMBDA it : Classify(it.delta_data) = class))

IncidentAnalytics(deltas) ==
    LET items == DeltaItems(deltas)
        down  == SelectSeq(items,
                           LAMBDA it : Classify(it.delta_data) = "skipped_admin_down")
    IN  [total_interfaces              |-> NestedLen(deltas),
         interfaces_evaluated          |-> CountClass(items, "opened")
                                           + CountClass(items, "ignored"),
         interfaces_skipped_admin_down |-> Len(down),
         interfaces_skipped_first_poll |-> CountClass(items, "skipped_first_poll"),
         interfaces_skipped_no_delta   |-> CountClass(items, "skipped_no_delta"),
         interfaces_skipped_zero_pkts  |-> CountClass(items, "skipped_zero_pkts"),
         incidents_opened              |-> CountClass(items, "opened"),
         incidents_ignored             |-> CountClass(items, "ignored"),
         skipped_admin_down_list       |->
             [i \in 1..Len(down) |-> << down[i].node, down[i].iface_id >>]]

\* the activity with `incidents` kept between two invocations
EvaluateIncidentAccumulating(input) ==
    /\ incident_input' = input.deltas
    /\ incident_result' = Some(
          [incidents |-> IncidentLoop(DeltaItems(input.deltas), 1,
                                      IF incident_result = None THEN << >>
                                      ELSE incident_result[1].incidents),
           ip        |-> input.ip,
           protocol  |-> input.protocol,
           analytics |-> IncidentAnalytics(input.deltas)])
    /\ pc' = "evaluated"
    /\ UNCHANGED << history, uuids, store_result, delta_result, previous,
                    collected, failure, result, aborted >>

\* the activity on IncidentInput(ip, deltas); the input is only read
EvaluateIncident(input) ==
    /\ ~ \E i \in 1..Len(DeltaItems(input.deltas)) :
            Classify(DeltaItems(input.deltas)[i].delta_data) = "TypeError"
    /\ incident_input' = input.deltas
    /\ incident_result' = Some(
          [incidents |-> IncidentLoop(DeltaItems(input.deltas), 1, << >>),
           ip        |-> input.ip,
           protocol  |-> input.protocol,
           analytics |-> IncidentAnalytics(input.deltas)])
    /\ pc' = "evaluated"
    /\ UNCHANGED << history, uuids, store_result, delta_result, previous,
                    collected, failure, result, aborted >>

\* the caller hands the deltas of the delta stage to the evaluator
Evaluate ==
    /\ pc = "deltas"
    /\ UNCHANGED << device, elsewhere >>
    /\ evaluations' = 1
    /\ trace' = Append(trace, [stage |-> "evaluate_incident_activity",
                               input |-> IncidentInput])
    /\ attempts' = 0
    /\ EvaluateIncident(IncidentInput)

\* the evaluator invoked once more on the batch it was given
Reevaluate ==
    /\ pc = "evaluated"
    /\ evaluations < MaxEvaluations
    /\ evaluations' = evaluations + 1
    /\ EvaluateIncident([ip       |-> incident_result[1].ip,
                         deltas   |-> incident_input,
                         protocol |-> incident_result[1].protocol])
    /\ UNCHANGED << trace, attempts, device, elsewhere >>

\* total_interfaces counted over the node level: len(delta_result.deltas)
FinalResultNodeCount ==
    [ip               |-> incident_result[1].ip,
     protocol         |-> incident_result[1].protocol,
     poll_id          |-> store_result[1].poll_id,
     total_interfaces |-> Len(delta_result[1].deltas),
     deltas           |-> delta_result[1].deltas,
     incidents        |-> incident_result[1].incidents,
     total_incidents  |-> Len(incident_result[1].incidents)]

\* the dict run() returns
FinalResult ==
    [ip               |-> incident_result[1].ip,
     protocol         |-> incident_result[1].protocol,
     poll_id          |-> store_result[1].poll_id,
     total_interfaces |-> NestedLen(delta_result[1].deltas),
     deltas           |-> delta_result[1].deltas,
     incidents        |-> incident_result[1].incidents,
     total_incidents  |-> Len(incident_result[1].incidents)]

\* run() returns its result
Return ==
    /\ pc = "evaluated"
    /\ pc' = "done"
    /\ result' = Some(FinalResult)
    /\ evaluations' = 0
    /\ UNCHANGED << history, uuids, store_result, delta_result, previous,
                    incident_input, incident_result, collected, trace,
                    attempts, failure, aborted, device, elsewhere >>

\* the run is over, returned or failed; the next one starts from nothing but
\* the history collection
Discard ==
    /\ pc \in {"done", "failed"}
    /\ pc' = "idle"
    /\ Unwound
    /\ trace' = << >>
    /\ attempts' = 0
    /\ failure' = None
    /\ result' = None
    /\ device' = NoDevice
    /\ UNCHANGED << history, uuids, aborted, elsewhere >>

\* calculate_delta_activity raises (get_history_collection or a find fails)
\* or times out
CalculateDeltaFails ==
    /\ pc = "stored"
    /\ Raises("calculate_delta_activity", DeltaInput)
    /\ UNCHANGED << device, elsewhere >>

\* evaluate_incident_activity raises or times out
EvaluateFails ==
    /\ pc = "deltas"
    /\ Raises("evaluate_incident_activity", IncidentInput)
    /\ UNCHANGED << device, elsewhere >>

(***************************************************************************)
(* Inputs                                                                  *)
(***************************************************************************)
\* a dn is the sequence of its path segments; `bracket` is what a segment
\* holds between "[" and "]", "" for a segment without brackets
Seg(text) == [text |-> text, bracket |-> ""]
Bracketed(text, bracket) == [text |-> text, bracket |-> bracket]

\* topology/pod-1/<node>/sys/phys-[<iface_id>]
Dn(node, iface_id) ==
    << Seg("topology"), Seg("pod-1"), Seg(node), Seg("sys"),
       Bracketed("phys-", iface_id) >>

InterfaceData(node, iface_id, adminSt, crc_errors, pkts_cum) ==
    [dn         |-> Dn(node, iface_id),
     adminSt    |-> adminSt,
     crc_errors |-> crc_errors,
     pkts_cum   |-> pkts_cum]

\* interfaces[node][iface_id] = data, for the items in order
RECURSIVE Nest(_, _)
Nest(items, interfaces) ==
    IF items = << >> THEN interfaces
    ELSE LET it == Head(items)
             d1 == IF HasKey(interfaces, it.node) THEN interfaces
                   ELSE DictSet(interfaces, it.node, EmptyDict)
         IN  Nest(Tail(items),
                  DictSet(d1, it.node,
                          DictSet(DictGet(d1, it.node), it.iface_id, it.data)))

Item(node, iface_id, adminSt, crc_errors, pkts_cum) ==
    [node |-> node, iface_id |-> iface_id,
     data |-> InterfaceData(node, iface_id, adminSt, crc_errors, pkts_cum)]

AdminStates == {"up", "down"}
CrcValues == {0, 1, 2, 3, 6, 11, 50}
PktsValues == {0, 100, 1000}

\* one device, one interface, many counter values
CounterInputs ==
    { [ip |-> "10.0.0.1", protocol |-> "https", interfaces |-> EmptyDict] }
    \cup { [ip |-> "10.0.0.1", protocol |-> "https",
            interfaces |-> Nest(<< Item("node-101", "eth1/1", a, c, p) >>, EmptyDict)] :
           a \in AdminStates, c \in CrcValues, p \in PktsValues }

\* an interface, the interface of the same name on another device and on
\* another node, and another interface of its node
Sources == { << "10.0.0.1", "node-101", "eth1/1" >>,
             << "10.0.0.2", "node-101", "eth1/1" >>,
             << "10.0.0.1", "node-102", "eth1/1" >>,
             << "10.0.0.1", "node-101", "eth1/2" >> }
Times == {1, 2, 3}

\* one interface per batch; the counters of poll n are 5n errors in 100n
\* packets
KeyInputs(n) ==
    { [ip |-> src[1], protocol |-> "https",
       interfaces |-> Nest(<< Item(src[2], src[3], "up", 5 * n, 100 * n) >>, EmptyDict)] :
      src \in Sources }

BatchKeys == { << "node-101", "eth1/1" >>, << "node-101", "eth1/2" >>,
               << "node-102", "eth1/1" >> }
\* the interface of one name on two nodes, the node that sorts last first,
\* and two interfaces of one node
KeyPairs == { << << "node-102", "eth1/1" >>, << "node-101", "eth1/1" >> >>,
              << << "node-101", "eth1/1" >>, << "node-101", "eth1/2" >> >> }
Counters == { [crc |-> 0, pkts |-> 0], [crc |-> 2, pkts |-> 100],
              [crc |-> 13, pkts |-> 200] }

\* one device, up to two interfaces per batch
BatchInputs ==
    { [ip |-> "10.0.0.1", protocol |-> "https", interfaces |-> EmptyDict] }
    \cup { [ip |-> "10.0.0.1", protocol |-> "https",
            interfaces |-> Nest(<< Item(k[1], k[2], "up", c.crc, c.pkts) >>, EmptyDict)] :
           k \in BatchKeys, c \in Counters }
    \cup { [ip |-> "10.0.0.1", protocol |-> "https",
            interfaces |-> Nest(<< Item(kk[1][1], kk[1][2], "up", c1.crc, c1.pkts),
                                   Item(kk[2][1], kk[2][2], "up", c2.crc, c2.pkts) >>,
                                EmptyDict)] :
           kk \in KeyPairs, c1 \in Counters, c2 \in Counters }

(***************************************************************************)
(* login_activity, get_phys_if_activity, get_ingr_total_activity           *)
(***************************************************************************)
MaxRecords == 2      \* records in the answer to one class query

\* int() of a string of decimal digits, the string a sequence of digits
RECURSIVE int(_)
int(str) ==
    IF str = << >> THEN 0
    ELSE 10 * int(SubSeq(str, 1, Len(str) - 1)) + str[Len(str)]

\* the segment texts in which re.search(r'(node-\d+)') finds a match, and
\* what it matches there
NodeMatch(text) ==
    CASE text = "node-101" -> Some("node-101")
      [] text = "node-102" -> Some("node-102")
      [] OTHER             -> None

\* the first match of (node-\d+) in the dn, "" without one
RECURSIVE extract_node_from_dn(_)
extract_node_from_dn(dn) ==
    IF dn = << >> THEN ""
    ELSE IF NodeMatch(Head(dn).text) # None THEN NodeMatch(Head(dn).text)[1]
    ELSE extract_node_from_dn(Tail(dn))

\* the first match of \[([^\]]+)\] in the dn, "" without one
RECURSIVE extract_interface_from_dn(_)
extract_interface_from_dn(dn) ==
    IF dn = << >> THEN ""
    ELSE IF Head(dn).bracket # "" THEN Head(dn).bracket
    ELSE extract_interface_from_dn(Tail(dn))

\* the loop over the rmonEtherStats children: the last child wins
CrcErrors(children) ==
    IF children = << >> THEN 0 ELSE int(children[Len(children)])

\* node, iface_id and the dict stored for every record of imdata
PhysIfItems(imdata) ==
    [i \in 1..Len(imdata) |->
       [node     |-> extract_node_from_dn(imdata[i].dn),
        iface_id |-> imdata[i].id,
        data     |-> [dn         |-> imdata[i].dn,
                      adminSt    |-> imdata[i].adminSt,
                      crc_errors |-> CrcErrors(imdata[i].children)]]]

\* the uuids of empty_nodes are opaque; the list is modelled by its length
PhysIfAnalytics(imdata, interfaces) ==
    [total_nodes      |->
        Cardinality({ extract_node_from_dn(imdata[i].dn) : i \in 1..Len(imdata) }
                    \ {""}),
     total_interfaces |-> NestedLen(interfaces),
     total_admin_up   |-> Len(SelectSeq(imdata, LAMBDA r : r.adminSt = "up")),
     total_admin_down |-> Len(SelectSeq(imdata, LAMBDA r : r.adminSt # "up")),
     empty_nodes      |->
        [i \in 1..Len(SelectSeq(imdata,
                                LAMBDA r : extract_node_from_dn(r.dn) = "")) |->
           "uuid4"]]

\* the loop that builds ingr_data, keyed by the interface of the dn
RECURSIVE IngrData(_, _)
IngrData(imdata, ingr_data) ==
    IF imdata = << >> THEN ingr_data
    ELSE LET dn    == Head(imdata).dn
             iface == extract_interface_from_dn(dn)
         IN  IngrData(Tail(imdata),
                      IF iface # ""
                      THEN DictSet(ingr_data, iface,
                                   [pkts_cum |-> int(Head(imdata).pktsCum),
                                    dn       |-> dn])
                      ELSE ingr_data)

\* the loop `for iface_id, iface_data in input.interfaces.items()`: it walks
\* the outer level of the dict it is given
RECURSIVE Merge(_, _, _)
Merge(items, ingr_data, merged) ==
    IF items = << >> THEN merged
    ELSE LET iface_id   == Head(items).k
             iface_data == Head(items).v
             pkts_cum   == IF HasKey(ingr_data, iface_id)
                           THEN DictGet(ingr_data, iface_id).pkts_cum
                           ELSE 0
         IN  Merge(Tail(items), ingr_data,
                   DictSet(merged, iface_id,
                           DictSet(iface_data, "pkts_cum", pkts_cum)))

IngrTotalAnalytics(imdata, interfaces, ingr_data) ==
    LET matched == Len(SelectSeq(interfaces, LAMBDA e : HasKey(ingr_data, e.k)))
    IN  [total_records                |-> Len(imdata),
         total_interfaces_matched    |-> matched,
         total_interfaces_unmatched  |-> Len(interfaces) - matched,
         interfaces_with_pkts        |-> matched,
         interfaces_without_pkts     |-> Len(interfaces) - matched,
         empty_interface_extractions |->
            [i \in 1..Len(SelectSeq(imdata,
                                    LAMBDA r : extract_interface_from_dn(r.dn) = "")) |->
               "uuid4"]]

\* the records a device may hold: interfaces of two nodes, of two paths
\* without a node-<n> segment, up with two rmonEtherStats children or down
\* with none
PhysIfDns ==
    { Dn("node-101", "eth1/1"), Dn("node-102", "eth1/1"),
      Dn("node-101", "eth1/2"), Dn("leaf-201", "eth1/1"),
      Dn("leaf-202", "eth1/1") }

PhysIfRecords ==
    { [dn |-> dn, id |-> extract_interface_from_dn(dn), adminSt |-> "up",
       children |-> << <<3>>, <<1, 2>> >>] : dn \in PhysIfDns }
    \cup { [dn |-> dn, id |-> extract_interface_from_dn(dn), adminSt |-> "down",
            children |-> << >>] : dn \in PhysIfDns }

\* topology/pod-1/<node>/sys/phys-[<iface_id>]/CDeqptIngrTotal15min, and one
\* record whose dn has no bracketed segment
IngrTotalRecords ==
    { [dn      |-> Dn("node-101", "eth1/1") \o << Seg("CDeqptIngrTotal15min") >>,
       pktsCum |-> <<1, 0, 0>>],
      [dn      |-> Dn("node-102", "eth1/1") \o << Seg("CDeqptIngrTotal15min") >>,
       pktsCum |-> <<2, 5, 0>>],
      [dn      |-> Dn("node-101", "eth1/2") \o << Seg("CDeqptIngrTotal15min") >>,
       pktsCum |-> <<3, 0, 0>>],
      [dn      |-> << Seg("topology"), Seg("pod-1"), Seg("node-101"), Seg("sys"),
                      Seg("CDeqptIngrTotal15min") >>,
       pktsCum |-> <<4, 0, 0>>] }

\* the sequences of at most n elements of a set
SeqsUpTo(S, n) == UNION { [1..m -> S] : m \in 0..n }

\* a device reports every interface once
Devices ==
    { [l1PhysIf |-> a, eqptIngrTotal15min |-> b] :
        a \in { x \in SeqsUpTo(PhysIfRecords, MaxRecords) :
                  \A i, j \in 1..Len(x) : x[i].dn = x[j].dn => i = j },
        b \in SeqsUpTo(IngrTotalRecords, MaxRecords) }

WorkflowInputs == { [ip |-> "10.0.0.1", protocol |-> "https"] }

\* the workflow starts on a device; login_activity posts the credentials and
\* raises unless the answer has status 200
LoginOn(devices) ==
    /\ pc = "idle"
    /\ \E input \in WorkflowInputs, d \in devices, status_code \in {200, 401} :
         /\ device' = d
         /\ UNCHANGED elsewhere
         /\ IF "login_activity" \notin RegisteredActivities \/ status_code # 200
            THEN Raises("login_activity", input)
            ELSE /\ login_result' = Some([ip |-> input.ip, protocol |-> input.protocol])
                 /\ Completes("login_activity", input, "authenticated")
                 /\ UNCHANGED << history, uuids, store_result, delta_result,
                                 previous, incident_input, incident_result,
                                 evaluations, phys_if_result, ingr_total_result >>

Login == LoginOn(Devices)

\* get_phys_if_activity on PhysIfInput; raise_for_status raises on a 4xx or
\* 5xx answer
GetPhysIf ==
    /\ pc = "authenticated"
    /\ UNCHANGED << device, elsewhere >>
    /\ \E status_code \in {200, 403} :
         IF "get_phys_if_activity" \notin RegisteredActivities \/ status_code >= 400
         THEN Raises("get_phys_if_activity", PhysIfInput)
         ELSE LET imdata     == device.l1PhysIf
                  interfaces == Nest(PhysIfItems(imdata), EmptyDict)
              IN  /\ phys_if_result' = Some(
                        [interfaces |-> interfaces,
                         ip         |-> PhysIfInput.ip,
                         protocol   |-> PhysIfInput.protocol,
                         analytics  |-> PhysIfAnalytics(imdata, interfaces)])
                  /\ Completes("get_phys_if_activity", PhysIfInput, "collected")
                  /\ UNCHANGED << history, uuids, store_result, delta_result,
                                  previous, incident_input, incident_result,
                                  evaluations, login_result, ingr_total_result >>

\* get_ingr_total_activity on IngrTotalInput
GetIngrTotal ==
    /\ pc = "collected"
    /\ UNCHANGED << device, elsewhere >>
    /\ \E status_code \in {200, 403} :
         IF "get_ingr_total_activity" \notin RegisteredActivities \/ status_code >= 400
         THEN Raises("get_ingr_total_activity", IngrTotalInput)
         ELSE LET imdata    == device.eqptIngrTotal15min
                  ingr_data == IngrData(imdata, EmptyDict)
              IN  /\ ingr_total_result' = Some(
                        [interfaces |-> Merge(IngrTotalInput.interfaces, ingr_data,
                                              EmptyDict),
                         ip         |-> IngrTotalInput.ip,
                         protocol   |-> IngrTotalInput.protocol,
                         analytics  |-> IngrTotalAnalytics(
                                            imdata, IngrTotalInput.interfaces,
                                            ingr_data)])
                  /\ Completes("get_ingr_total_activity", IngrTotalInput, "merged")
                  /\ UNCHANGED << history, uuids, store_result, delta_result,
                                  previous, incident_input, incident_result,
                                  evaluations, login_result, phys_if_result >>

\* run() schedules store_history_activity on StoreHistoryInput; the worker
\* answers a task for an activity it was not constructed with by failing it
Store ==
    /\ pc = "merged"
    /\ UNCHANGED << device, elsewhere >>
    /\ IF "store_history_activity" \notin RegisteredActivities
       THEN Raises("store_history_activity", StoreHistoryInput)
       ELSE \E timestamp \in Times,
               inserted \in 0..NestedLen(StoreHistoryInput.interfaces) :
              StoreHistory(StoreHistoryInput, timestamp, inserted)

(***************************************************************************)
(* send_email_notification_activity (email_notification.py)                *)
(*   nothing in the repository schedules it; it is an activity on its own  *)
(***************************************************************************)
MaxMails == 2

\* a session with the relay: the connection, sendmail, and the QUIT that
\* SMTP.__exit__ sends on leaving the with block.  __exit__ raises
\* SMTPResponseException on an answer other than 221 and swallows
\* SMTPServerDisconnected
SmtpSessions ==
    { [connect |-> "OSError", sendmail |-> "none", quit |-> "none"] }
      \cup { [connect |-> "ok", sendmail |-> s, quit |-> q] :
               s \in {"ok", "SMTPException"},
               q \in {"221", "421", "SMTPServerDisconnected"} }

\* sendmail has returned: the relay has taken the message
Accepted(session) == session.connect = "ok" /\ session.sendmail = "ok"

\* an exception leaves the with block
SessionRaises(session) ==
    \/ session.connect # "ok"
    \/ session.sendmail # "ok"
    \/ session.quit = "421"

\* send_email: `sent` is set after sendmail inside the with block, `failed`
\* in the handlers of the try around the block
send_email(subject, html_body, recipients, session) ==
    LET res    == [sent |-> 0, failed |-> 0]
        tried  == IF Accepted(session)
                  THEN [res EXCEPT !.sent = Len(recipients)]
                  ELSE res
    IN  IF SessionRaises(session)
        THEN [tried EXCEPT !.failed = Len(recipients)]
        ELSE tried

EmailOutput(emails_sent, emails_failed, recipients) ==
    [emails_sent |-> emails_sent, emails_failed |-> emails_failed,
     recipients  |-> recipients]

\* the activity on EmailInput, with the recipients configured in props.py
send_email_notification_activity(input, EMAIL_RECIPIENTS, session) ==
    IF input.incidents = << >>
    THEN EmailOutput(0, 0, << >>)
    ELSE IF EMAIL_RECIPIENTS = << >>
    THEN EmailOutput(0, 0, << >>)
    ELSE LET subject   == [incidents |-> Len(input.incidents), ip |-> input.ip]
             html_body == [ip               |-> input.ip,
                           poll_id          |-> input.poll_id,
                           incidents        |-> input.incidents,
                           total_interfaces |-> input.total_interfaces]
             res       == send_email(subject, html_body, EMAIL_RECIPIENTS, session)
         IN  EmailOutput(res.sent, res.failed, EMAIL_RECIPIENTS)

\* the message the relay takes when the activity gets as far as sendmail
Message(input, EMAIL_RECIPIENTS) ==
    [subject |-> [incidents |-> Len(input.incidents), ip |-> input.ip],
     to      |-> EMAIL_RECIPIENTS]

EmailIncidents ==
    { << >>,
      << [node |-> "node-101", interface |-> "eth1/1", severity |-> "high"] >>,
      << [node |-> "node-101", interface |-> "eth1/1", severity |-> "critical"],
         [node |-> "node-102", interface |-> "eth1/1", severity |-> "warning"] >> }

EmailInputs ==
    { [ip |-> ip, protocol |-> "https", poll_id |-> 1, incidents |-> incidents,
       total_interfaces |-> 2] :
        ip \in {"10.0.0.1", "10.0.0.2"}, incidents \in EmailIncidents }

RecipientLists == { << >>, << "noc" >>, << "noc", "oncall" >> }

\* an execution of the activity
SendEmailNotification ==
    /\ pc = "idle"
    /\ Len(outbox) < MaxMails
    /\ \E input \in EmailInputs, EMAIL_RECIPIENTS \in RecipientLists,
          session \in SmtpSessions :
         /\ email' = Some(
               [input      |-> input,
                recipients |-> EMAIL_RECIPIENTS,
                session    |-> session,
                output     |-> send_email_notification_activity(
                                   input, EMAIL_RECIPIENTS, session)])
         /\ outbox' = IF /\ input.incidents # << >>
                         /\ EMAIL_RECIPIENTS # << >>
                         /\ Accepted(session)
                      THEN Append(outbox, Message(input, EMAIL_RECIPIENTS))
                      ELSE outbox
    /\ UNCHANGED << history, uuids, pc, store_result, delta_result, previous,
                    incident_input, incident_result, evaluations, collected,
                    trace, attempts, failure, result, aborted, device,
                    other, raced, connection >>

(***************************************************************************)
(* The history connection (mongodb.py)                                     *)
(*   mongodb_client is the one MongoDBClient of the process.  A MongoClient *)
(*   is the number of its construction; a Database is the client it was    *)
(*   taken from and its name.                                              *)
(***************************************************************************)
MaxCalls == 3

\* os.environ.get: the variable is unset, or empty, or holds a value
MongoUris == { None, Some(""), Some("mongodb://mongo:27017"),
               Some("mongo:27017") }

MongoDbs == { None, Some("crc"), Some("crc errors") }

Environs == { [MONGO_URI |-> u, MONGO_DB |-> d] :
                u \in MongoUris, d \in MongoDbs }

\* `not value` of an Optional[str]
Unset(value) == value = None \/ value[1] = ""

\* MongoClient(uri) raises InvalidURI on a URI without the mongodb scheme
MongoClient(uri) == uri \in { "mongodb://mongo:27017" }

\* client[name] raises InvalidName on a name with a space in it
Database(name) == name \in { "crc" }

\* how many MongoClient objects the calls have constructed
Constructed(made) ==
    Cardinality({ i \in 1..Len(made) :
                    made[i].op = "connect" /\ made[i].created })

\* connect(), on a server that answers the ping or does not: the singleton
\* as the call leaves it, and what the call did
connect(self, environ, reachable, handle) ==
    LET did(after, raised, created, pinged) ==
            [self     |-> after,
             raised   |-> raised,
             returned |-> IF raised THEN None ELSE after._db,
             created  |-> created,
             pinged   |-> pinged]
        made == [self EXCEPT !._client = Some(handle)]
        bound == [made EXCEPT
                    !._db = Some([client |-> handle,
                                  name   |-> environ.MONGO_DB[1]])]
    IN  IF self._db # None
          THEN did(self, FALSE, FALSE, FALSE)
        ELSE IF Unset(environ.MONGO_URI) \/ Unset(environ.MONGO_DB)
          THEN did(self, TRUE, FALSE, FALSE)
        ELSE IF ~MongoClient(environ.MONGO_URI[1])
          THEN did(self, TRUE, FALSE, FALSE)
        ELSE IF ~Database(environ.MONGO_DB[1])
          THEN did(made, TRUE, TRUE, FALSE)
        ELSE IF ~reachable
          THEN did(bound, TRUE, TRUE, TRUE)
        ELSE did(bound, FALSE, TRUE, TRUE)

\* close()
close(self) ==
    IF self._client # None
    THEN [_client |-> None, _db |-> None]
    ELSE self

\* a call of connect(), as get_collection() makes it
Connect ==
    /\ Len(calls) < MaxCalls
    /\ \E environ \in Environs, reachable \in BOOLEAN :
         LET did == connect(mongodb_client, environ, reachable,
                            Constructed(calls) + 1)
         IN  /\ mongodb_client' = did.self
             /\ calls' = Append(calls,
                   [op        |-> "connect",
                    environ   |-> environ,
                    reachable |-> reachable,
                    raised    |-> did.raised,
                    returned  |-> did.returned,
                    created   |-> did.created,
                    pinged    |-> did.pinged])
    /\ UNCHANGED << history, uuids, pc, store_result, delta_result, previous,
                    incident_input, incident_result, evaluations, collected,
                    trace, attempts, failure, result, aborted, device, email,
                    outbox, other, raced >>

\* a call of close()
Close ==
    /\ Len(calls) < MaxCalls
    /\ mongodb_client' = close(mongodb_client)
    /\ calls' = Append(calls, [op |-> "close"])
    /\ UNCHANGED << history, uuids, pc, store_result, delta_result, previous,
                    incident_input, incident_result, evaluations, collected,
                    trace, attempts, failure, result, aborted, device, email,
                    outbox, other, raced >>

(***************************************************************************)
(* Specifications                                                          *)
(***************************************************************************)
Init ==
    /\ history = << >>
    /\ uuids = 0
    /\ pc = "idle"
    /\ store_result = None
    /\ delta_result = None
    /\ previous = << >>
    /\ incident_input = EmptyDict
    /\ incident_result = None
    /\ evaluations = 0
    /\ login_result = None
    /\ phys_if_result = None
    /\ ingr_total_result = None
    /\ trace = << >>
    /\ attempts = 0
    /\ failure = None
    /\ result = None
    /\ aborted = {}
    /\ device = NoDevice
    /\ email = None
    /\ outbox = << >>
    /\ other = None
    /\ raced = {}
    /\ mongodb_client = [_client |-> None, _db |-> None]
    /\ calls = << >>

\* the clock advances between two polls
StoreCounters ==
    /\ pc = "idle"
    /\ UNCHANGED << device, elsewhere >>
    /\ uuids < MaxPolls
    /\ \E input \in CounterInputs, inserted \in 0..1 :
          StoreHistory(input, uuids + 1, inserted)

\* the wall clock may repeat itself or step back
StoreKeys ==
    /\ pc = "idle"
    /\ UNCHANGED << device, elsewhere >>
    /\ uuids < MaxPollsKeys
    /\ \E input \in KeyInputs(uuids + 1), timestamp \in Times, inserted \in 0..1 :
          StoreHistory(input, timestamp, inserted)

StoreBatch ==
    /\ pc = "idle"
    /\ UNCHANGED << device, elsewhere >>
    /\ uuids < MaxPollsBatch
    /\ \E input \in BatchInputs, inserted \in 0..2 :
          StoreHistory(input, uuids + 1, inserted)

Next ==
    \/ StoreCounters
    \/ CalculateDelta
    \/ CalculateDeltaFails
    \/ Evaluate
    \/ EvaluateFails
    \/ Reevaluate
    \/ Return
    \/ Discard

NextKeys ==
    StoreKeys \/ CalculateDelta \/ Evaluate \/ Reevaluate \/ Return \/ Discard

NextBatch ==
    StoreBatch \/ CalculateDelta \/ Evaluate \/ Reevaluate \/ Return \/ Discard

Spec == Init /\ [][Next]_vars

SpecKeys == Init /\ [][NextKeys]_vars

SpecBatch == Init /\ [][NextBatch]_vars

\* run() on the worker of worker.py, against a device; the run never gets
\* past store_history_activity, which the worker does not have, so the steps
\* of calculate_delta_activity and evaluate_incident_activity and the return
\* are no steps of this specification
NextRun == Login \/ GetPhysIf \/ GetIngrTotal \/ Store \/ Discard

SpecRun == Init /\ [][NextRun]_vars

\* run() awaits one activity after the other and returns: with the history
\* store and the worker up, every activity it has scheduled is executed
\* the empty batch and the batches of two interfaces with equal counters
FairInputs ==
    { b \in BatchInputs :
        \A i, j \in 1..Len(Documents(b.interfaces, b.ip, 0, 0)) :
          /\ Len(Documents(b.interfaces, b.ip, 0, 0)) = 2
          /\ Documents(b.interfaces, b.ip, 0, 0)[i].crc_errors
               = Documents(b.interfaces, b.ip, 0, 0)[j].crc_errors }

StoreFair ==
    /\ pc = "idle"
    /\ UNCHANGED << device, elsewhere >>
    /\ uuids < MaxPollsBatch
    /\ \E input \in FairInputs, inserted \in 0..2 :
          StoreHistory(input, uuids + 1, inserted)

NextFair == StoreFair \/ CalculateDelta \/ Evaluate \/ Return \/ Discard

SpecFair ==
    /\ Init
    /\ [][NextFair]_vars
    /\ WF_vars(CalculateDelta)
    /\ WF_vars(Evaluate)
    /\ WF_vars(Return)

\* store_history_activity invoked once more on the input it was given
StoreAgain ==
    /\ pc = "stored"
    /\ UNCHANGED << device, elsewhere >>
    /\ uuids < MaxPollsBatch
    /\ \E inserted \in 0..2 :
          StoreHistory(trace[Len(trace)].input, uuids + 1, inserted)

\* calculate_delta_activity invoked once more on the input it was given
CalculateDeltaAgain ==
    /\ pc = "deltas"
    /\ \E returned \in calculate_delta_activity(trace[Len(trace)].input) :
         /\ delta_result' = Some(returned.output)
         /\ previous' = returned.prevs
    /\ UNCHANGED << history, uuids, pc, store_result, incident_input,
                    incident_result, evaluations, collected, trace, attempts,
                    failure, result, aborted, device, elsewhere >>

\* the activities of the history store and the evaluator, each invoked any
\* number of times on one input
NextAgain ==
    \/ StoreBatch
    \/ StoreAgain
    \/ CalculateDelta
    \/ CalculateDeltaAgain
    \/ Evaluate
    \/ Reevaluate
    \/ Return
    \/ Discard

SpecAgain == Init /\ [][NextAgain]_vars

\* runs of the workflow as wired, on a collection that the activities of the
\* history store and the evaluator, invoked in their order, have written to
\* the devices that report at most one interface and no counters
FewDevices ==
    { [l1PhysIf |-> a, eqptIngrTotal15min |-> << >>] :
        a \in SeqsUpTo(PhysIfRecords, 1) }

LoginFew == LoginOn(FewDevices)

NextStore ==
    \/ LoginFew
    \/ GetPhysIf
    \/ GetIngrTotal
    \/ Store
    \/ StoreFair
    \/ CalculateDelta
    \/ CalculateDeltaFails
    \/ Evaluate
    \/ EvaluateFails
    \/ Return
    \/ Discard

SpecStore == Init /\ [][NextStore]_vars

\* two runs on one device and one history collection, neither waiting for
\* the other: the run of the variables above and the run in `other`, which
\* has the same activities executed in the same order
MaxPollsRace == 3

\* the n-th poll of the device: one of two interfaces of node-101
RaceInputs(n) ==
    { [ip |-> "10.0.0.1", protocol |-> "https",
       interfaces |-> Nest(<< Item("node-101", id, "up", 5 * n, 100 * n) >>,
                           EmptyDict)] : id \in {"eth1/1", "eth1/2"} }

\* the other run has stored its poll and not computed its deltas
OtherStored == other # None /\ other[1].delta = None

StoreRace ==
    /\ pc = "idle"
    /\ uuids < MaxPollsRace
    /\ \E input \in RaceInputs(uuids + 1), inserted \in 0..1 :
          StoreHistory(input, uuids + 1, inserted)
    /\ raced' = IF OtherStored
                THEN raced \cup { {other[1].store.poll_id, uuids + 1} }
                ELSE raced
    /\ UNCHANGED << device, email, outbox, other, connection >>

OtherStore ==
    /\ other = None
    /\ uuids < MaxPollsRace
    /\ \E input \in RaceInputs(uuids + 1), inserted \in 0..1 :
          LET returned == store_history_activity(input, uuids + 1, inserted)
          IN  /\ uuids' = uuids + 1
              /\ history' = history \o returned.written
              /\ other' = Some([store |-> returned.output, delta |-> None])
    /\ raced' = IF pc = "stored"
                THEN raced \cup { {store_result[1].poll_id, uuids + 1} }
                ELSE raced
    /\ UNCHANGED << pc, store_result, delta_result, previous, incident_input,
                    incident_result, evaluations, collected, trace, attempts,
                    failure, result, aborted, device, email, outbox,
                    connection >>

OtherDelta ==
    /\ OtherStored
    /\ \E returned \in calculate_delta_activity(
                           [ip       |-> other[1].store.ip,
                            poll_id  |-> other[1].store.poll_id,
                            protocol |-> other[1].store.protocol]) :
         other' = Some([other[1] EXCEPT !.delta = Some(returned)])
    /\ UNCHANGED << history, uuids, pc, store_result, delta_result, previous,
                    incident_input, incident_result, evaluations, collected,
                    trace, attempts, failure, result, aborted, device, email,
                    outbox, raced, connection >>

\* the other run goes on to its evaluator and returns
OtherReturn ==
    /\ other # None
    /\ other[1].delta # None
    /\ other' = None
    /\ UNCHANGED << history, uuids, pc, store_result, delta_result, previous,
                    incident_input, incident_result, evaluations, collected,
                    trace, attempts, failure, result, aborted, device, email,
                    outbox, raced, connection >>

NextRace ==
    \/ StoreRace
    \/ OtherStore
    \/ CalculateDelta
    \/ OtherDelta
    \/ OtherReturn
    \/ Evaluate
    \/ Return
    \/ Discard

SpecRace == Init /\ [][NextRace]_vars

\* the notifier, executed on its own
NextNotify == SendEmailNotification

SpecNotify == Init /\ [][NextNotify]_vars

\* the calls on the history connection
NextConnect == Connect \/ Close

SpecConnect == Init /\ [][NextConnect]_vars

(***************************************************************************)
(* Properties                                                              *)
(***************************************************************************)
\* the delta stage of the run has returned
Computed == pc \in {"deltas", "evaluated"}

\* the documents of the poll the run stored
RunPoll == CurrentPoll(store_result[1].ip, store_result[1].poll_id)

Docs == { history[i] : i \in 1..Len(history) }

\* the persisted records of the same device, node and interface in another poll
Priors(doc) ==
    { d \in Docs : /\ d.ip = doc.ip
                   /\ d.node = doc.node
                   /\ d.interface_id = doc.interface_id
                   /\ d.poll_id # doc.poll_id }

\* the DeltaRecord emitted for a document of the current poll
RecordOf(doc) == DictGet(DictGet(delta_result[1].deltas, doc.node), doc.interface_id)

Emitted(doc) ==
    /\ HasKey(delta_result[1].deltas, doc.node)
    /\ HasKey(DictGet(delta_result[1].deltas, doc.node), doc.interface_id)

Records == { it.delta_data : it \in
               { DeltaItems(delta_result[1].deltas)[i] :
                   i \in 1..Len(DeltaItems(delta_result[1].deltas)) } }

\* C1: for a snapshot of the current poll whose key has a prior snapshot, the
\* record carries the current counters as T1, the counters of a prior
\* snapshot as T0, and their plain differences as deltas, negative ones
\* included.
C1_StraightSubtraction ==
    Computed =>
      \A doc \in { RunPoll[i] : i \in 1..Len(RunPoll) } :
        Priors(doc) # {} =>
          /\ Emitted(doc)
          /\ \E p \in Priors(doc) :
               /\ RecordOf(doc).crc_t1 = Some(doc.crc_errors)
               /\ RecordOf(doc).pkts_t1 = Some(doc.pkts_cum)
               /\ RecordOf(doc).crc_t0 = Some(p.crc_errors)
               /\ RecordOf(doc).pkts_t0 = Some(p.pkts_cum)
               /\ RecordOf(doc).delta_crc = Some(doc.crc_errors - p.crc_errors)
               /\ RecordOf(doc).delta_pkts = Some(doc.pkts_cum - p.pkts_cum)

\* both counters went down between the prior and the current poll
C1_Witness ==
    /\ Computed
    /\ \E r \in Records :
         /\ r.delta_crc # None
         /\ r.delta_crc[1] < 0
         /\ r.delta_pkts[1] < 0

\* C2: a record with a prior snapshot has crc_percent 0.0 when delta_pkts <= 0
\* and the exact ratio delta_crc / delta_pkts when delta_pkts > 0; it is never
\* null and never the outcome of a division by zero.
C2_Percent ==
    Computed =>
      \A r \in Records :
        r.delta_pkts # None =>
          /\ r.crc_percent # None
          /\ r.crc_percent[1].den > 0
          /\ r.delta_pkts[1] <= 0 => r.crc_percent[1] = Float(0, 1)
          /\ r.delta_pkts[1] > 0 =>
               r.crc_percent[1].num * r.delta_pkts[1]
                 = r.delta_crc[1] * r.crc_percent[1].den

\* errors grew while the packet counter stood still
C2_Witness ==
    /\ Computed
    /\ \E r \in Records :
         /\ r.delta_pkts # None
         /\ r.delta_pkts[1] = 0
         /\ r.delta_crc[1] > 0
         /\ r.crc_percent = Some(Float(0, 1))

\* C3: a snapshot of the current poll whose key has no prior snapshot gets a
\* record with first_poll true, the T0 fields, both deltas and the percentage
\* null and the T1 fields set from the snapshot; a key with a prior snapshot
\* gets a record whose first_poll is not true.
C3_FirstPoll ==
    Computed =>
      \A doc \in { RunPoll[i] : i \in 1..Len(RunPoll) } :
        /\ Emitted(doc)
        /\ Priors(doc) = {} =>
             /\ FirstPoll(RecordOf(doc)) = TRUE
             /\ RecordOf(doc).crc_t0 = None
             /\ RecordOf(doc).pkts_t0 = None
             /\ RecordOf(doc).delta_crc = None
             /\ RecordOf(doc).delta_pkts = None
             /\ RecordOf(doc).crc_percent = None
             /\ RecordOf(doc).crc_t1 = Some(doc.crc_errors)
             /\ RecordOf(doc).pkts_t1 = Some(doc.pkts_cum)
        /\ Priors(doc) # {} => FirstPoll(RecordOf(doc)) # TRUE

\* a first poll of an interface with non-zero counters
C3_Witness ==
    /\ Computed
    /\ \E doc \in { RunPoll[i] : i \in 1..Len(RunPoll) } :
         /\ Priors(doc) = {}
         /\ doc.crc_errors > 0
         /\ doc.pkts_cum > 0
         /\ FirstPoll(RecordOf(doc))

\* C4 as stated: first_poll is true exactly when crc_t0, crc_t1, pkts_t0 and
\* pkts_t1 are all null.
C4_AllFourNull ==
    Computed =>
      \A r \in Records :
        FirstPoll(r) <=> (/\ r.crc_t0 = None
                          /\ r.crc_t1 = None
                          /\ r.pkts_t0 = None
                          /\ r.pkts_t1 = None)

\* C4 amended: first_poll is true exactly when crc_t0 and pkts_t0 are null,
\* which they are exactly when no prior snapshot exists (and then so are both
\* deltas and the percentage); crc_t1 and pkts_t1 are never null.
C4_T0Null ==
    Computed =>
      /\ \A doc \in { RunPoll[i] : i \in 1..Len(RunPoll) } :
           RecordOf(doc).crc_t0 = None <=> Priors(doc) = {}
      /\ \A r \in Records :
        /\ FirstPoll(r) <=> (r.crc_t0 = None /\ r.pkts_t0 = None)
        /\ FirstPoll(r) <=> (r.crc_t0 = None \/ r.pkts_t0 = None)
        /\ FirstPoll(r) <=> (/\ r.delta_crc = None
                             /\ r.delta_pkts = None
                             /\ r.crc_percent = None)
        /\ r.crc_t1 # None
        /\ r.pkts_t1 # None

\* a first-poll record
C4_Witness ==
    /\ Computed
    /\ \E r \in Records : FirstPoll(r) /\ r.crc_t0 = None /\ r.crc_t1 # None

\* C5: the prior snapshot used for a document of the current poll is none
\* exactly when no record of the same device, node and interface exists in
\* another poll; otherwise it is such a record, of greatest timestamp among
\* them, and its counters are the T0 values of the record.
C5_MostRecentPrior ==
    Computed =>
      /\ Len(previous) = Len(RunPoll)
      /\ \A i \in 1..Len(RunPoll) :
           /\ previous[i] = None <=> Priors(RunPoll[i]) = {}
           /\ previous[i] # None =>
                /\ previous[i][1] \in Priors(RunPoll[i])
                /\ previous[i][1].poll_id # store_result[1].poll_id
                /\ previous[i][1].ip = store_result[1].ip
                /\ previous[i][1].node = RunPoll[i].node
                /\ previous[i][1].interface_id = RunPoll[i].interface_id
                /\ \A d \in Priors(RunPoll[i]) :
                     d.timestamp <= previous[i][1].timestamp
                /\ RecordOf(RunPoll[i]).crc_t0 = Some(previous[i][1].crc_errors)
                /\ RecordOf(RunPoll[i]).pkts_t0 = Some(previous[i][1].pkts_cum)

\* two prior records of the key, the one with the greater timestamp inserted
\* first, and a record of another device with a timestamp greater still
C5_Witness ==
    /\ Computed
    /\ Len(RunPoll) = 1
    /\ previous[1] # None
    /\ \E i, j, k \in 1..Len(history) :
         /\ history[i] = previous[1][1]
         /\ i < j
         /\ history[j] \in Priors(RunPoll[1])
         /\ history[j].timestamp < history[i].timestamp
         /\ history[k].ip # RunPoll[1].ip
         /\ history[k].node = RunPoll[1].node
         /\ history[k].interface_id = RunPoll[1].interface_id
         /\ history[k].timestamp > history[i].timestamp

\* the incidents of the run that are about one interface
IncidentsOf(node, iface_id) ==
    { i \in 1..Len(incident_result[1].incidents) :
        /\ incident_result[1].incidents[i].node = node
        /\ incident_result[1].incidents[i].interface_id = iface_id }

EvaluatedItems ==
    { DeltaItems(incident_input)[i] : i \in 1..Len(DeltaItems(incident_input)) }

\* C6: a record yields an incident exactly when first_poll is not true,
\* adminSt is "up", both deltas are non-null, delta_pkts > 0 and
\* crc_percent > 0.01.
C6_IncidentRule ==
    pc = "evaluated" =>
      \A it \in EvaluatedItems :
        IncidentsOf(it.node, it.iface_id) # {}
          <=> /\ ~ FirstPoll(it.delta_data)
              /\ it.delta_data.adminSt = "up"
              /\ it.delta_data.delta_crc # None
              /\ it.delta_data.delta_pkts # None
              /\ it.delta_data.delta_pkts[1] > 0
              /\ it.delta_data.crc_percent # None
              /\ 100 * it.delta_data.crc_percent[1].num
                   > it.delta_data.crc_percent[1].den

\* a record of an interface that is up, at exactly 1 %, without an incident
C6_Witness ==
    /\ pc = "evaluated"
    /\ \E it \in EvaluatedItems :
         /\ it.delta_data.adminSt = "up"
         /\ it.delta_data.crc_percent = Some(Float(1, 100))
         /\ it.delta_data.delta_pkts[1] > 0
         /\ IncidentsOf(it.node, it.iface_id) = {}

Incidents ==
    { incident_result[1].incidents[i] : i \in 1..Len(incident_result[1].incidents) }

\* C7: the severity of an incident is critical above 10 %, else high above
\* 5 %, else medium above 2 %, else warning, all comparisons strict.
C7_Severity ==
    pc = "evaluated" =>
      \A inc \in Incidents :
        inc.severity =
          IF 10 * inc.crc_percent.num > inc.crc_percent.den THEN "critical"
          ELSE IF 20 * inc.crc_percent.num > inc.crc_percent.den THEN "high"
          ELSE IF 50 * inc.crc_percent.num > inc.crc_percent.den THEN "medium"
          ELSE "warning"

\* 50 errors in 1000 packets: exactly 5 %, medium
C7_Witness ==
    /\ pc = "evaluated"
    /\ \E inc \in Incidents :
         /\ inc.delta_crc = 50
         /\ inc.delta_pkts = 1000
         /\ inc.crc_percent = Float(1, 20)
         /\ inc.severity = "medium"

Rank(severity) ==
    CASE severity = "warning"  -> 1
      [] severity = "medium"   -> 2
      [] severity = "high"     -> 3
      [] severity = "critical" -> 4

\* C8: of two incidents, the one with the greater crc_percent has a severity
\* that ranks at least as high.
C8_Monotone ==
    pc = "evaluated" =>
      \A a, b \in Incidents :
        a.crc_percent.num * b.crc_percent.den > b.crc_percent.num * a.crc_percent.den
          => Rank(a.severity) >= Rank(b.severity)

\* two incidents of one batch with different percentages and severities
C8_Witness ==
    /\ pc = "evaluated"
    /\ \E a, b \in Incidents :
         /\ a.crc_percent.num * b.crc_percent.den > b.crc_percent.num * a.crc_percent.den
         /\ a.severity = "critical"
         /\ b.severity = "high"

\* C9: the adminSt of a record is the one of the current snapshot, and a
\* snapshot whose adminSt is not "up" yields no incident.
C9_AdminDown ==
    /\ Computed =>
         \A doc \in { RunPoll[i] : i \in 1..Len(RunPoll) } :
           RecordOf(doc).adminSt = doc.adminSt
    /\ pc = "evaluated" =>
         \A doc \in { RunPoll[i] : i \in 1..Len(RunPoll) } :
           doc.adminSt # "up" => IncidentsOf(doc.node, doc.interface_id) = {}

\* an interface that was up in the prior poll and is down now, with more
\* than 1 % of errors, and no incident
C9_Witness ==
    /\ pc = "evaluated"
    /\ \E doc \in { RunPoll[i] : i \in 1..Len(RunPoll) } :
         /\ doc.adminSt = "down"
         /\ \A p \in Priors(doc) : p.adminSt = "up"
         /\ RecordOf(doc).crc_percent # None
         /\ FloatGT(RecordOf(doc).crc_percent[1], CRC_THRESHOLD)
         /\ IncidentsOf(doc.node, doc.interface_id) = {}

\* the position of an interface in the order of the delta batch
Position(node, iface_id) ==
    CHOOSE i \in 1..Len(DeltaItems(incident_input)) :
        /\ DeltaItems(incident_input)[i].node = node
        /\ DeltaItems(incident_input)[i].iface_id = iface_id

C11_FirstPollSkipped ==
    pc = "evaluated" =>
      /\ \A doc \in { RunPoll[i] : i \in 1..Len(RunPoll) } :
           Priors(doc) = {} => IncidentsOf(doc.node, doc.interface_id) = {}
      /\ (\A d \in Docs : d.ip = store_result[1].ip
                              => d.poll_id = store_result[1].poll_id)
           => incident_result[1].incidents = << >>

\* the first run against a device, with 5 % of errors on an interface that is
\* up, while the interface of the same node and name of another device has
\* records; no incident
C11_Witness ==
    /\ pc = "evaluated"
    /\ Len(RunPoll) = 1
    /\ RunPoll[1].adminSt = "up"
    /\ RunPoll[1].crc_errors * 100 > RunPoll[1].pkts_cum
    /\ RunPoll[1].pkts_cum > 0
    /\ \A d \in Docs : d.ip = RunPoll[1].ip => d.poll_id = RunPoll[1].poll_id
    /\ \E d \in Docs : /\ d.ip # RunPoll[1].ip
                        /\ d.node = RunPoll[1].node
                        /\ d.interface_id = RunPoll[1].interface_id
    /\ incident_result[1].incidents = << >>

\* C12: a document of the current poll whose packet counter is not above the
\* one of the prior snapshot used for it yields no incident, whatever the
\* growth of the error counter.
C12_ZeroTraffic ==
    pc = "evaluated" =>
      \A i \in 1..Len(RunPoll) :
        (previous[i] # None /\ RunPoll[i].pkts_cum <= previous[i][1].pkts_cum)
          => IncidentsOf(RunPoll[i].node, RunPoll[i].interface_id) = {}

\* ten more errors on an interface that is up, no more packets, no incident
C12_Witness ==
    /\ pc = "evaluated"
    /\ Len(RunPoll) = 1
    /\ RunPoll[1].adminSt = "up"
    /\ RecordOf(RunPoll[1]).delta_pkts = Some(0)
    /\ RecordOf(RunPoll[1]).delta_crc = Some(10)
    /\ incident_result[1].incidents = << >>

\* the keys of the documents of the current poll
RunKeys == { << RunPoll[i].node, RunPoll[i].interface_id >> : i \in 1..Len(RunPoll) }

\* C13: the delta batch holds one record per (node, interface_id) of the
\* current poll and nothing else, nested by node, then by interface_id; the
\* record of a key carries the counters of the current document of that very
\* node and a prior snapshot of that very node.
C13_OnePerKey ==
    Computed =>
      LET items == DeltaItems(delta_result[1].deltas)
      IN  /\ Len(items) = Cardinality(RunKeys)
          /\ { << items[i].node, items[i].iface_id >> : i \in 1..Len(items) } = RunKeys
          /\ \A i, j \in 1..Len(delta_result[1].deltas) :
                delta_result[1].deltas[i].k = delta_result[1].deltas[j].k => i = j
          /\ \A doc \in { RunPoll[i] : i \in 1..Len(RunPoll) } :
                /\ Emitted(doc)
                /\ RecordOf(doc).dn = doc.dn
                /\ RecordOf(doc).crc_t1 = Some(doc.crc_errors)
                /\ RecordOf(doc).pkts_t1 = Some(doc.pkts_cum)
                /\ RecordOf(doc).crc_t0 # None =>
                     \E p \in Priors(doc) :
                       /\ p.node = doc.node
                       /\ RecordOf(doc).crc_t0 = Some(p.crc_errors)
                       /\ RecordOf(doc).pkts_t0 = Some(p.pkts_cum)
                /\ RecordOf(doc).crc_t0 = None => Priors(doc) = {}

\* the interface of one name on two nodes, both with a prior snapshot, the
\* two records with different deltas
C13_Witness ==
    /\ Computed
    /\ \E a, b \in { RunPoll[i] : i \in 1..Len(RunPoll) } :
         /\ a.node # b.node
         /\ a.interface_id = b.interface_id
         /\ Priors(a) # {}
         /\ Priors(b) # {}
         /\ RecordOf(a).delta_crc # RecordOf(b).delta_crc
         /\ RecordOf(a).crc_t0 # RecordOf(b).crc_t0

\* the documents of the history collection that carry a poll id
PollDocs(poll_id) == { d \in Docs : d.poll_id = poll_id }

\* C16: the failure of an activity after the store leaves the history
\* collection as it was, the documents of a run that failed after its store
\* are never removed, and a later run takes such a document as the prior
\* snapshot of its key when it is the most recent one of that key.
C16_SnapshotsSurvive ==
    /\ [][(pc' = "failed" /\ pc # "failed") => history' = history]_vars
    /\ [][\A d \in Docs : d.poll_id \in aborted' => d \in PollDocs(d.poll_id)']_vars
    /\ [](Computed =>
            \A i \in 1..Len(RunPoll) :
              \A d \in Priors(RunPoll[i]) :
                (/\ d.poll_id \in aborted
                 /\ \A e \in Priors(RunPoll[i]) \ {d} : e.timestamp < d.timestamp)
                  => previous[i] = Some(d))

\* a run whose delta is computed against the snapshot of a run that failed
\* after its store
C16_Witness ==
    /\ Computed
    /\ Len(RunPoll) = 1
    /\ previous[1] # None
    /\ previous[1][1].poll_id \in aborted
    /\ RecordOf(RunPoll[1]).delta_crc # None
    /\ RecordOf(RunPoll[1]).delta_crc[1] > 0

\* the execution of store_history_activity the run has logged
StoreExecutions ==
    SelectSeq(trace, LAMBDA e : e.stage = "store_history_activity")

C20_ResultConsistent ==
    pc = "done" =>
      LET r     == result[1]
          items == DeltaItems(r.deltas)
      IN  /\ r.poll_id = store_result[1].poll_id
          /\ \A e \in { trace[i] : i \in 1..Len(trace) } :
                e.stage = "calculate_delta_activity" => e.input.poll_id = r.poll_id
          /\ \A it \in { items[i] : i \in 1..Len(items) } :
                \E d \in PollDocs(r.poll_id) :
                  d.node = it.node /\ d.interface_id = it.iface_id
          /\ r.deltas = delta_result[1].deltas
          /\ r.incidents = incident_result[1].incidents
          /\ r.total_interfaces = Len(items)
          /\ r.total_incidents = Len(r.incidents)
          /\ \A i \in 1..Len(r.incidents) :
                \E j \in 1..Len(items) :
                  /\ items[j].node = r.incidents[i].node
                  /\ items[j].iface_id = r.incidents[i].interface_id
          /\ DOMAIN r = {"ip", "protocol", "poll_id", "total_interfaces",
                         "deltas", "incidents", "total_incidents"}

\* a result with two interfaces of one node and one incident
C20_Witness ==
    /\ pc = "done"
    /\ result[1].total_interfaces = 2
    /\ Len(result[1].deltas) = 1
    /\ result[1].total_incidents = 1

\* the order of the execute_activity calls of run()
StageOrder ==
    << "login_activity", "get_phys_if_activity", "get_ingr_total_activity",
       "store_history_activity", "calculate_delta_activity",
       "evaluate_incident_activity" >>

\* the step executes the activity: it adds an entry for it to the trace
Executes(stage) ==
    /\ Len(trace') = Len(trace) + 1
    /\ trace'[Len(trace')].stage = stage

\* the input the step hands to the activity it executes
Handed == trace'[Len(trace')].input

\* C14: the activities of a run are executed in the order login, phys_if,
\* ingr_total, store_history, calculate_delta, evaluate_incident, one at a
\* time; an activity is executed only when the one before it has returned
\* its output, and its input is built from that output.
C14_StageOrder ==
    /\ [](/\ Len(trace) <= Len(StageOrder)
          /\ \A i \in 1..Len(trace) : trace[i].stage = StageOrder[i])
    /\ [](/\ pc = "authenticated" => (Len(trace) = 1 /\ login_result # None)
          /\ pc = "collected" => (Len(trace) = 2 /\ phys_if_result # None)
          /\ pc = "merged" => (Len(trace) = 3 /\ ingr_total_result # None))
    /\ [][Executes("login_activity") => pc = "idle" /\ trace = << >>]_vars
    /\ [][Executes("get_phys_if_activity")
            => /\ pc = "authenticated"
               /\ Handed = [ip       |-> login_result[1].ip,
                            protocol |-> login_result[1].protocol]]_vars
    /\ [][Executes("get_ingr_total_activity")
            => /\ pc = "collected"
               /\ Handed = [ip         |-> phys_if_result[1].ip,
                            interfaces |-> phys_if_result[1].interfaces,
                            protocol   |-> phys_if_result[1].protocol]]_vars
    /\ [][Executes("store_history_activity")
            => /\ pc = "merged"
               /\ Handed = [ip         |-> ingr_total_result[1].ip,
                            interfaces |-> ingr_total_result[1].interfaces,
                            protocol   |-> ingr_total_result[1].protocol]]_vars
    /\ [][Executes("calculate_delta_activity")
            => /\ pc = "stored"
               /\ Handed = [ip       |-> store_result[1].ip,
                            poll_id  |-> store_result[1].poll_id,
                            protocol |-> store_result[1].protocol]]_vars
    /\ [][Executes("evaluate_incident_activity")
            => /\ pc = "deltas"
               /\ Handed = [ip       |-> delta_result[1].ip,
                            deltas   |-> delta_result[1].deltas,
                            protocol |-> delta_result[1].protocol]]_vars

\* login, phys_if and ingr_total have returned in this order and
\* store_history has been executed on the merged interfaces of two nodes
C14_Witness ==
    /\ Len(trace) = 4
    /\ trace[4].stage = "store_history_activity"
    /\ Len(trace[4].input.interfaces) = 2
    /\ trace[3].input.interfaces # trace[4].input.interfaces

\* C15: no activity is executed twice in a run; the first failing execution
\* ends the run as failed, with the failing activity the last one executed
\* and no result, and nothing is executed after it.
C15_NoRetry ==
    /\ [](\A i, j \in 1..Len(trace) : trace[i].stage = trace[j].stage => i = j)
    /\ [](attempts = 0)
    /\ [](failure # None <=> pc = "failed")
    /\ [](pc = "failed" =>
            /\ trace # << >>
            /\ trace[Len(trace)].stage = failure[1]
            /\ result = None
            /\ login_result = None
            /\ phys_if_result = None
            /\ ingr_total_result = None
            /\ store_result = None)
    /\ [][pc = "failed" => (pc' = "idle" /\ trace' = << >>)]_vars
    /\ [][(pc' = "failed" /\ pc # "failed") => Len(trace') = Len(trace) + 1]_vars

\* a run that failed at its second activity, executed once
C15_Witness ==
    /\ pc = "failed"
    /\ failure = Some("get_phys_if_activity")
    /\ Len(trace) = 2
    /\ device.l1PhysIf # << >>

\* C18 as stated: the merged output holds, for every (node, interface_id) of
\* the interfaces collected from feed (a), one snapshot with the dn, adminSt
\* and crc_errors collected and with pkts_cum a counter feed (b) reports for
\* that interface id, 0 when it reports none, and holds nothing else.
C18_MergedSnapshots ==
    pc = "merged" =>
      LET a     == phys_if_result[1].interfaces
          m     == ingr_total_result[1].interfaces
          b     == device.eqptIngrTotal15min
          of(i) == { r \in { b[j] : j \in 1..Len(b) } :
                       extract_interface_from_dn(r.dn) = i }
      IN  /\ \A n \in 1..Len(a) : \A e \in 1..Len(a[n].v) :
                /\ HasKey(m, a[n].k)
                /\ HasKey(DictGet(m, a[n].k), a[n].v[e].k)
                /\ LET snap == DictGet(DictGet(m, a[n].k), a[n].v[e].k)
                   IN  /\ DOMAIN snap = {"dn", "adminSt", "crc_errors", "pkts_cum"}
                       /\ snap.dn = a[n].v[e].v.dn
                       /\ snap.adminSt = a[n].v[e].v.adminSt
                       /\ snap.crc_errors = a[n].v[e].v.crc_errors
                       /\ IF of(a[n].v[e].k) = {} THEN snap.pkts_cum = 0
                          ELSE \E r \in of(a[n].v[e].k) :
                                 snap.pkts_cum = int(r.pktsCum)
          /\ \A n \in 1..Len(m) :
                /\ HasKey(a, m[n].k)
                /\ \A e \in 1..Len(m[n].v) : HasKey(DictGet(a, m[n].k), m[n].v[e].k)

\* C19 as stated: every record of feed (a), with or without a node in its
\* dn, is recorded as an interface under its node and id, and the number of
\* interfaces recorded is the number of records processed, which is the sum
\* of the admin-up and the admin-other count.
C19_CountPreserved ==
    pc \in {"collected", "merged"} =>
      LET imdata == device.l1PhysIf
          out    == phys_if_result[1]
      IN  /\ \A i \in 1..Len(imdata) :
                /\ HasKey(out.interfaces, extract_node_from_dn(imdata[i].dn))
                /\ HasKey(DictGet(out.interfaces, extract_node_from_dn(imdata[i].dn)),
                          imdata[i].id)
          /\ out.analytics.total_admin_up + out.analytics.total_admin_down
               = Len(imdata)
          /\ out.analytics.total_interfaces = Len(imdata)
          /\ NestedLen(out.interfaces) = Len(imdata)

\* C21 as stated, in its finite form: a run fails only at an activity that
\* talks to the device, on the device's answer; once login and both queries
\* have returned, the run does not fail, for the history store refuses
\* nothing in these runs.
C21_RunCompletes ==
    pc = "failed" =>
      failure[1] \in { "login_activity", "get_phys_if_activity",
                       "get_ingr_total_activity" }

\* C22 as stated: a run that returns with incidents has executed
\* send_email_notification_activity after evaluate_incident_activity, on the
\* ip, the poll id, the incidents and the interface count of the run; a run
\* that returns without incidents has not executed it.
C22_NotifierHanded ==
    pc = "done" =>
      LET sent == { i \in 1..Len(trace) :
                      trace[i].stage = "send_email_notification_activity" }
      IN  IF result[1].incidents = << >>
          THEN sent = {}
          ELSE \E i \in sent :
                 /\ \E j \in 1..(i - 1) :
                      trace[j].stage = "evaluate_incident_activity"
                 /\ trace[i].input.ip = result[1].ip
                 /\ trace[i].input.poll_id = result[1].poll_id
                 /\ trace[i].input.incidents = result[1].incidents
                 /\ trace[i].input.total_interfaces = result[1].total_interfaces

\* C23 as stated: an execution of the notifier returns counts and raises
\* nothing; with no incidents or no recipients both counts are 0 and the
\* relay gets no message; else either the session went through, the relay
\* has the message, emails_sent is the number of recipients and
\* emails_failed is 0, or the session failed, emails_failed is the number
\* of recipients and emails_sent is 0.
C23_NotifierCounts ==
    email # None =>
      LET e == email[1]
          n == Len(e.recipients)
      IN  IF e.input.incidents = << >> \/ e.recipients = << >>
          THEN e.output.emails_sent = 0 /\ e.output.emails_failed = 0
          ELSE \/ /\ ~ SessionRaises(e.session)
                  /\ e.output.emails_sent = n
                  /\ e.output.emails_failed = 0
               \/ /\ SessionRaises(e.session)
                  /\ e.output.emails_failed = n
                  /\ e.output.emails_sent = 0

\* the activity the caller is at is invoked a second time
Again(stage) == pc = stage /\ pc' = stage

\* the second invocation of calculate_delta_activity and of
\* evaluate_incident_activity return what the first returned and write
\* nothing
ReadersIdempotent ==
    /\ [][Again("deltas") => (history' = history /\ delta_result' = delta_result)]_vars
    /\ [][Again("evaluated")
            => (history' = history /\ incident_result' = incident_result)]_vars

\* C24 as stated: a second invocation of store_history_activity,
\* calculate_delta_activity or evaluate_incident_activity on the input of the
\* first returns what the first returned and leaves the history collection
\* as the first left it.
C24_Idempotent ==
    /\ [][Again("stored") => (history' = history /\ store_result' = store_result)]_vars
    /\ ReadersIdempotent

\* the runs that have computed their deltas: the poll of each and the
\* `previous` it found for the documents of the poll
ComputedRuns ==
    (IF Computed /\ store_result # None
     THEN { [ip |-> store_result[1].ip, poll_id |-> store_result[1].poll_id,
             prevs |-> previous] } ELSE {})
      \cup
    (IF other # None /\ other[1].delta # None
     THEN { [ip |-> other[1].store.ip, poll_id |-> other[1].store.poll_id,
             prevs |-> other[1].delta[1].prevs] } ELSE {})

\* C25: two runs on one device do not wait for each other.  A run whose poll
\* was stored together with a later poll before either run computed its
\* deltas takes as previous, for every interface the later poll holds too, a
\* snapshot stored after its own; and a run takes a snapshot stored after its
\* own as previous only for such a pair of polls, never when each run stores
\* and computes before the next one stores.
C25_Unserialized ==
    \A run \in ComputedRuns :
      LET current_poll == CurrentPoll(run.ip, run.poll_id)
      IN  \A i \in 1..Len(run.prevs) :
            /\ \A d \in Docs :
                  (/\ d.ip = run.ip
                   /\ d.poll_id > run.poll_id
                   /\ {run.poll_id, d.poll_id} \in raced
                   /\ d.node = current_poll[i].node
                   /\ d.interface_id = current_poll[i].interface_id)
                  => (/\ run.prevs[i] # None
                      /\ run.prevs[i][1].poll_id >= d.poll_id)
            /\ (run.prevs[i] # None /\ run.prevs[i][1].poll_id > run.poll_id)
                  => {run.poll_id, run.prevs[i][1].poll_id} \in raced

\* both runs have stored interface eth1/1 before either computed; the run
\* that stored first has taken the snapshot of the other as previous, and
\* the other the snapshot of the first
C25_Witness ==
    /\ Computed
    /\ other # None
    /\ other[1].delta # None
    /\ store_result[1].poll_id < other[1].store.poll_id
    /\ Len(previous) = 1
    /\ previous[1] # None
    /\ previous[1][1].poll_id = other[1].store.poll_id
    /\ other[1].delta[1].prevs[1] # None
    /\ other[1].delta[1].prevs[1][1].poll_id = store_result[1].poll_id

\* C26: the history collection only grows, and only by the insert of
\* store_history_activity: every step leaves the documents there as they
\* are and in their order, a step that adds documents is an execution of
\* store_history_activity, and the steps of a run up to its
\* store_history_activity, a failure among them included, add nothing.
C26_AppendOnly ==
    /\ [][/\ Len(history') >= Len(history)
          /\ SubSeq(history', 1, Len(history)) = history]_vars
    /\ [][history' # history
            => /\ Executes("store_history_activity")
               /\ pc' = "stored"]_vars
    /\ [][(\/ Executes("login_activity")
           \/ Executes("get_phys_if_activity")
           \/ Executes("get_ingr_total_activity")
           \/ Executes("calculate_delta_activity")
           \/ Executes("evaluate_incident_activity")
           \/ pc' = "failed") => history' = history]_vars

\* a run on a collection of two polls has failed at its second activity,
\* before its store
C26_Witness ==
    /\ pc = "failed"
    /\ failure = Some("get_phys_if_activity")
    /\ Len(history) >= 2
    /\ \E d, e \in Docs : d.poll_id # e.poll_id

\* the documents a step adds to the collection
Added == SubSeq(history', Len(history) + 1, Len(history'))

\* C27: an execution of store_history_activity draws one poll id that no
\* execution before it has drawn and stamps every document it writes with
\* that poll id, its ip and one timestamp; the documents of one poll id in
\* the collection have one ip and one timestamp and were written by one
\* execution.
C27_OnePollId ==
    /\ [](\A d, e \in Docs :
            d.poll_id = e.poll_id => (d.ip = e.ip /\ d.timestamp = e.timestamp))
    /\ [](\A d \in Docs : d.poll_id \in 1..uuids)
    /\ [][Executes("store_history_activity")
            => /\ store_result'[1].poll_id \notin 1..uuids
               /\ store_result'[1].poll_id \in 1..uuids'
               /\ \A i \in 1..Len(Added) :
                     /\ Added[i].poll_id = store_result'[1].poll_id
                     /\ Added[i].ip = Handed.ip
                     /\ Added[i].timestamp = Added[1].timestamp]_vars

\* two polls of two interfaces each
C27_Witness ==
    /\ uuids = 2
    /\ Len(history) = 4
    /\ history[1].poll_id = history[2].poll_id
    /\ history[3].poll_id = history[4].poll_id
    /\ history[1].poll_id # history[3].poll_id
    /\ history[1].node # history[2].node

\* the records of feed (b) whose dn has no bracketed segment
Unbracketed == { j \in 1..Len(device.eqptIngrTotal15min) :
                   extract_interface_from_dn(device.eqptIngrTotal15min[j].dn) = "" }

\* a record of feed (b) without a bracketed segment is counted among the
\* empty extractions and every interface of feed (a) is in the output
SkippedAndFlagged ==
    (pc = "merged" /\ Unbracketed # {}) =>
      LET a == phys_if_result[1].interfaces
          m == ingr_total_result[1].interfaces
      IN  /\ Len(ingr_total_result[1].analytics.empty_interface_extractions)
                = Cardinality(Unbracketed)
          /\ \A n \in 1..Len(a) : \A e \in 1..Len(a[n].v) :
                /\ HasKey(m, a[n].k)
                /\ HasKey(DictGet(m, a[n].k), a[n].v[e].k)

\* C28 as stated: when feed (b) holds a record without a bracketed segment,
\* get_ingr_total_activity still returns, with the record counted among the
\* empty extractions, with every interface of feed (a) in its output, and
\* with the counter of every other record of feed (b) merged into the
\* snapshots of the interface it names.
C28_MalformedSkipped ==
    /\ SkippedAndFlagged
    /\ (pc = "merged" /\ Unbracketed # {}) =>
         LET a == phys_if_result[1].interfaces
             m == ingr_total_result[1].interfaces
             b == device.eqptIngrTotal15min
         IN  \A j \in (1..Len(b)) \ Unbracketed :
               \A n \in 1..Len(a) : \A e \in 1..Len(a[n].v) :
                 a[n].v[e].k = extract_interface_from_dn(b[j].dn)
                   => LET snap == DictGet(DictGet(m, a[n].k), a[n].v[e].k)
                      IN  /\ "pkts_cum" \in DOMAIN snap
                          /\ \E r \in (1..Len(b)) \ Unbracketed :
                                /\ extract_interface_from_dn(b[r].dn)
                                     = a[n].v[e].k
                                /\ snap.pkts_cum = int(b[r].pktsCum)

\* the clock has advanced from every poll to the next one stored
Increasing ==
    \A d, e \in Docs : d.poll_id < e.poll_id => d.timestamp < e.timestamp

\* the documents of the interface of `doc` in the polls stored before its own
EarlierPolls(doc) ==
    { d \in Docs : /\ d.ip = doc.ip
                   /\ d.node = doc.node
                   /\ d.interface_id = doc.interface_id
                   /\ d.poll_id < doc.poll_id }

\* C29: with one run at a time and the clock advancing from poll to poll,
\* the previous of a document is the document of its interface in the latest
\* poll stored before its own that holds the interface, whatever polls
\* without the interface lie in between, and none when no earlier poll holds
\* it; its timestamp is earlier than that of the current poll.
C29_LatestEarlierPoll ==
    (Computed /\ Increasing) =>
      \A i \in 1..Len(previous) :
        LET earlier == EarlierPolls(RunPoll[i])
        IN  IF earlier = {} THEN previous[i] = None
            ELSE /\ previous[i] # None
                 /\ previous[i][1] \in earlier
                 /\ \A d \in earlier : d.poll_id <= previous[i][1].poll_id
                 /\ previous[i][1].timestamp < RunPoll[i].timestamp

\* the third poll holds an interface that the first poll holds and the
\* second, of another interface of the node, does not
C29_Witness ==
    /\ Computed
    /\ Increasing
    /\ Len(history) = 3
    /\ history[1].interface_id = history[3].interface_id
    /\ history[1].node = history[2].node
    /\ history[1].ip = history[2].ip
    /\ history[1].interface_id # history[2].interface_id
    /\ history[2].poll_id = history[1].poll_id + 1
    /\ RunPoll = << history[3] >>
    /\ previous = << Some(history[1]) >>

\* C30 as stated: when store_history_activity has returned, records_stored
\* is the number of documents of its poll id in the collection,
\* records_inserted and records_failed add up to the size of the batch, and
\* no interface reported as failed has a document of this poll id, also when
\* insert_many raised after writing some of the documents.
C30_CountsMatchStore ==
    pc = "stored" =>
      LET out   == store_result[1]
          input == trace[Len(trace)].input
      IN  /\ out.records_stored = Cardinality(PollDocs(out.poll_id))
          /\ out.analytics.records_inserted + out.analytics.records_failed
               = NestedLen(input.interfaces)
          /\ \A i \in 1..Len(out.analytics.failed_interfaces) :
                \A d \in PollDocs(out.poll_id) :
                  d.interface_id # out.analytics.failed_interfaces[i]

\* the counters get_ingr_total_activity keeps of feed (b) hold, for every
\* record with a bracketed segment, a counter reported for the node and the
\* interface of the record
CountersKeptPerNode ==
    pc = "merged" =>
      LET b         == device.eqptIngrTotal15min
          ingr_data == IngrData(b, EmptyDict)
      IN  \A j \in (1..Len(b)) \ Unbracketed :
            \E k \in 1..Len(ingr_data) :
              /\ ingr_data[k].k = extract_interface_from_dn(b[j].dn)
              /\ extract_node_from_dn(ingr_data[k].v.dn)
                   = extract_node_from_dn(b[j].dn)

\* C31 as stated: the pkts_cum of every snapshot in the merged output is a
\* counter that feed (b) reports for the node and the interface of the
\* snapshot, also when another node has an interface of the same id, and
\* the counters of the two nodes are kept apart.
C31_CounterOfSameNode ==
    /\ CountersKeptPerNode
    /\ pc = "merged" =>
         LET a == phys_if_result[1].interfaces
             m == ingr_total_result[1].interfaces
             b == device.eqptIngrTotal15min
         IN  \A n \in 1..Len(a) : \A e \in 1..Len(a[n].v) :
               LET snap == DictGet(DictGet(m, a[n].k), a[n].v[e].k)
                   same == { j \in (1..Len(b)) \ Unbracketed :
                               /\ extract_node_from_dn(b[j].dn) = a[n].k
                               /\ extract_interface_from_dn(b[j].dn) = a[n].v[e].k }
               IN  same # {} =>
                     /\ "pkts_cum" \in DOMAIN snap
                     /\ \E j \in same : snap.pkts_cum = int(b[j].pktsCum)

\* C32: every incident of an evaluation carries the node, the interface id,
\* the dn, delta_crc, delta_pkts and crc_percent of one record of the deltas
\* it was given; no two incidents of an evaluation are of the same node and
\* interface; and every incident has delta_pkts > 0, delta_crc > 0 and
\* delta_crc * 100 > delta_pkts.
C32_IncidentFromRecord ==
    pc = "evaluated" =>
      LET incidents == incident_result[1].incidents
      IN  /\ \A i \in 1..Len(incidents) :
                /\ \E it \in EvaluatedItems :
                      /\ it.node = incidents[i].node
                      /\ it.iface_id = incidents[i].interface_id
                      /\ it.delta_data.dn = incidents[i].dn
                      /\ it.delta_data.delta_crc = Some(incidents[i].delta_crc)
                      /\ it.delta_data.delta_pkts = Some(incidents[i].delta_pkts)
                      /\ it.delta_data.crc_percent = Some(incidents[i].crc_percent)
                /\ incidents[i].delta_pkts > 0
                /\ incidents[i].delta_crc > 0
                /\ incidents[i].delta_crc * 100 > incidents[i].delta_pkts
          /\ \A i, j \in 1..Len(incidents) :
                (/\ incidents[i].node = incidents[j].node
                 /\ incidents[i].interface_id = incidents[j].interface_id)
                  => i = j
          /\ incident_input = delta_result[1].deltas

\* an evaluation with two incidents, of the interface of one name on two
\* nodes, whose counters were not zero at the poll before
C32_Witness ==
    /\ pc = "evaluated"
    /\ Len(incident_result[1].incidents) = 2
    /\ incident_result[1].incidents[1].node # incident_result[1].incidents[2].node
    /\ incident_result[1].incidents[1].interface_id
         = incident_result[1].incidents[2].interface_id
    /\ \A it \in EvaluatedItems : it.delta_data.crc_t0 = Some(2)

\* C33: the counters of an evaluation partition the records it was given:
\* total_interfaces is the sum of the four skip counters and
\* interfaces_evaluated, interfaces_evaluated is incidents_opened plus
\* incidents_ignored, incidents_opened is the length of the incident list,
\* total_interfaces is the number of records, and a first-poll record is
\* counted as first-poll whatever its adminSt.
C33_Partition ==
    pc = "evaluated" =>
      LET a     == incident_result[1].analytics
          items == DeltaItems(incident_input)
      IN  /\ a.total_interfaces = Len(items)
          /\ a.total_interfaces
               = a.interfaces_skipped_first_poll + a.interfaces_skipped_admin_down
                 + a.interfaces_skipped_no_delta + a.interfaces_skipped_zero_pkts
                 + a.interfaces_evaluated
          /\ a.interfaces_evaluated = a.incidents_opened + a.incidents_ignored
          /\ a.incidents_opened = Len(incident_result[1].incidents)
          /\ a.interfaces_skipped_first_poll
               = Cardinality({ i \in 1..Len(items) : FirstPoll(items[i].delta_data) })
          /\ a.interfaces_skipped_admin_down
               = Cardinality({ i \in 1..Len(items) :
                                 /\ ~ FirstPoll(items[i].delta_data)
                                 /\ items[i].delta_data.adminSt # "up" })
          /\ Len(a.skipped_admin_down_list) = a.interfaces_skipped_admin_down

\* the evaluation of a record that is first-poll and admin-down
C33_Witness ==
    /\ pc = "evaluated"
    /\ \E it \in EvaluatedItems :
         /\ FirstPoll(it.delta_data)
         /\ it.delta_data.adminSt = "down"
    /\ incident_result[1].analytics.interfaces_skipped_first_poll = 1
    /\ incident_result[1].analytics.interfaces_skipped_admin_down = 0

\* C34: a connect() that fails leaves the singleton without a cached
\* database handle, so the connect() after it either fails on the
\* configuration or constructs a client and pings; and after a connect() that
\* succeeded, every connect() before the next close() returns the same handle
\* and constructs no client.
FailedConnect(call) == call.op = "connect" /\ call.raised

Connected(i, j) ==
    /\ i < j
    /\ calls[i].op = "connect" /\ ~calls[i].raised
    /\ calls[j].op = "connect"
    /\ \A k \in (i + 1)..(j - 1) : calls[k].op # "close"

ConnectedReused ==
    \A i, j \in 1..Len(calls) :
        Connected(i, j) =>
          /\ ~calls[j].raised
          /\ calls[j].returned = calls[i].returned
          /\ ~calls[j].created

\* a connect() answered, without a ping, with the handle a failed one left
ReturnsFailedHandle ==
    \E i \in 1..(Len(calls) - 1) :
        /\ FailedConnect(calls[i]) /\ calls[i].pinged
        /\ calls[i + 1].op = "connect"
        /\ ~calls[i + 1].raised /\ ~calls[i + 1].pinged
        /\ calls[i + 1].returned[1].client = Constructed(SubSeq(calls, 1, i))

C34_FailedConnectRecovers ==
    /\ calls # << >> /\ FailedConnect(calls[Len(calls)])
         => mongodb_client._db = None
    /\ \A i \in 1..(Len(calls) - 1) :
         FailedConnect(calls[i]) /\ calls[i + 1].op = "connect"
           => \/ calls[i + 1].raised
              \/ calls[i + 1].created /\ calls[i + 1].pinged
    /\ ConnectedReused

====
